---------------------------- MODULE Spec2Model ----------------------------
(***************************************************************************)
(* Agent health & supervision subsystem of Coral_Social_Media:             *)
(*   agent_status_updater.py  (the status reporter linked into each agent) *)
(*   agent_status_lock.py     (forced writes and reads of the remote table)*)
(*   agent_status_monitor.py  (the supervisor polling service)             *)
(* The remote agent_status table, the local cache directory, the network   *)
(* and the OS process table are the environment; every outcome they can    *)
(* produce is a nondeterministic choice of the action that meets them.     *)
(***************************************************************************)
EXTENDS Integers, Sequences, FiniteSets, TLC

(***************************************************************************)
(* Bounds of the model                                                     *)
(***************************************************************************)
\* the clock advances MaxTicks times at most
MaxTicks == 2
\* seconds added to the clock by one Tick
TickSeconds == 200
\* SpecRace: the clock advances by single seconds MaxSeconds times after a tick
MaxSeconds == 1
\* SpecCounter: calls are made while the failure counter is below MaxCount
MaxCount == 6
\* Spec: calls are made while the failure counter is below MaxFails
MaxFails == 2

(***************************************************************************)
(* Program constants                                                       *)
(***************************************************************************)
MAX_RETRIES == 3
MAX_FAILED_UPDATES == 5
MAX_RUNNING_TIME_WITHOUT_ACTIVITY == 300

(***************************************************************************)
(* Agent names are character sequences, so that the file name derived from *)
(* a name is computed as the code computes it.                             *)
(*   "T S"  stands for "Tweet Scraping Agent"  (in AGENT_PROCESS_NAMES)    *)
(*   "H T"  stands for "Hot Topic Agent"       (in AGENT_PROCESS_NAMES)    *)
(*   "C C"  stands for "Content Collector"     (not in AGENT_PROCESS_NAMES)*)
(***************************************************************************)
NameTS == <<"T", " ", "S">>
NameHT == <<"H", " ", "T">>
NameCC == <<"C", " ", "C">>
Agents == {NameTS, NameHT, NameCC}

\* str.lower() on one character
Lower(c) ==
    CASE c = "T" -> "t"
      [] c = "S" -> "s"
      [] c = "H" -> "h"
      [] c = "C" -> "c"
      [] OTHER -> c

\* f"{agent_name.replace(' ', '_').lower()}_status.json", without the suffix
StatusFileName(agent_name) ==
    [i \in DOMAIN agent_name |->
        Lower(IF agent_name[i] = " " THEN "_" ELSE agent_name[i])]

Files == {StatusFileName(a) : a \in Agents}

\* the supervisor's mapping from agent name to launch identifier
AGENT_PROCESS_NAMES ==
    (NameTS :> "2_langchain_tweet_scraping_agent_with_status.py") @@
    (NameHT :> "3.5_langchain_hot_topic_agent.py")

ProcessNames == {AGENT_PROCESS_NAMES[a] : a \in DOMAIN AGENT_PROCESS_NAMES}

(***************************************************************************)
(* Values                                                                  *)
(***************************************************************************)
\* Python None, JSON null
None == "<None>"
\* Python truthiness of an optional string
Truthy(s) == s \notin {None, ""}

\* health arguments: an int, or a value that is not an int
IntV(n) == [isint |-> TRUE, v |-> n]
NotInt == [isint |-> FALSE, v |-> 50]

\* updated_at values that are not timestamps written by this code
NullTS == -1
GarbageTS == -2

\* absent row, absent file, unreadable file
NoRow == [absent |-> TRUE]
NoFile == [absent |-> TRUE]
Corrupt == [corrupt |-> TRUE]

\* HTTP answers to a PATCH: status codes, and the two exception classes
Codes == {200, 201, 204, 202, 500}
Http(c) == [kind |-> "http", code |-> c]
RequestException == [kind |-> "RequestException", code |-> 0]
OtherException == [kind |-> "Exception", code |-> 0]
Answers == {Http(c) : c \in Codes} \cup {RequestException, OtherException}

Is2xx(ans) == ans.kind = "http" /\ ans.code >= 200 /\ ans.code <= 299

\* the exception classes met, with their base classes
Ancestors(e) ==
    CASE e = "RequestException" -> {"RequestException", "OSError", "Exception"}
      [] e = "OSError" -> {"OSError", "Exception"}
      [] OTHER -> {e, "Exception"}

\* an except clause naming the classes catches the exception
Caught(e, classes) == Ancestors(e) \cap classes # {}

\* the class of the exception a request ended with
ExcClass(ans) ==
    IF ans.kind = "RequestException" THEN "RequestException" ELSE "ValueError"

VARIABLES
    now,                          \* datetime.now(), in seconds
    remote,                       \* the agent_status table: agent -> row
    cache,                        \* LOCAL_STATUS_DIR: file name -> content
    consecutive_failed_updates,   \* per worker process: agent -> counter
    creds,                        \* SUPABASE_URL and SUPABASE_KEY are set
    pc,                           \* position of each worker in its call
    data,                         \* the dict a call has prepared
    attempt,                      \* loop variable of the retry loop
    ret,                          \* value the last call returned
    call,                         \* arguments of the current or last call
    probe,                        \* what is_network_available answered
    sent,                         \* PATCH requests issued by the call
    got2xx,                       \* some PATCH of the call was answered 2xx
    answered,                     \* how the PATCH requests of the call ended
    saved,                        \* what save_status_locally returned
    failures,                     \* failed calls since the last success
    got,                          \* result of the last get_agent_status
    proc,                         \* the OS process table: agent -> process
    supCreds,                     \* the supervisor's SUPABASE_URL and KEY
    sup_pc,                       \* position of the supervisor in its cycle
    agents,                       \* the list list_all_agents returned
    idx,                          \* position of the loop in its list
    cycle,                        \* how the current cycle reads its records
    startNow,                     \* the clock when the cycle began
    procAtStart,                  \* the process table when the cycle began
    killed,                       \* agents whose process the cycle signalled
    forced,                       \* agents the cycle sent a forced write for
    wrote,                        \* agents whose cache file the cycle wrote
    stopAtStart,                  \* mark_agent_stopped calls returned by then
    main,                         \* position of each worker in its main
    killing                       \* the call of kill_process in progress

\* the variables that record what a call did, for the properties
history == <<call, probe, sent, got2xx, answered, saved, failures>>

\* the variables of the worker processes
workerVars == <<consecutive_failed_updates, creds, pc, data, attempt, ret,
                history, got>>

\* the variables of the supervisor process, and what a cycle did
supVars == <<supCreds, sup_pc, agents, idx, cycle, startNow, procAtStart,
             killed, forced, wrote, stopAtStart>>

\* the position of the workers in main, and the kill in progress
auxVars == <<main, killing>>

vars == <<now, remote, cache, proc, workerVars, supVars, auxVars>>

\* no worker is followed through its main and no kill is in progress
NoMain == [at |-> "none", next |-> "none"]

NoKill ==
    [pc |-> "idle", os_name |-> "posix", pid |-> "", sent |-> <<>>,
     result |-> ""]

IdleAux ==
    /\ main = [a \in Agents |-> NoMain]
    /\ killing = NoKill


(***************************************************************************)
(* agent_status_updater.py                                                 *)
(***************************************************************************)
IoOutcomes == {"ok", "open_failed", "write_failed"}

\* the counter of a name the dict does not hold yet
Absent == -1

\* mutant: the upper bound of health is not checked
ValidInputs_NoUpperBound(status, health) ==
    /\ status \in {"running", "warning", "error", "stopped"}
    /\ health.isint /\ health.v >= 0

\* lines 133-140: the two input checks
ValidInputs(status, health) ==
    /\ status \in {"running", "warning", "error", "stopped"}
    /\ health.isint /\ health.v >= 0 /\ health.v <= 100

\* mutant: the dict carries a fixed health instead of the argument
PrepareData_FixedHealth(agent_name, status, health, last_activity, last_error, t) ==
    LET base == [agent_name |-> agent_name, status |-> status,
                 health |-> 100, updated_at |-> t]
        act  == IF Truthy(last_activity)
                THEN ("last_activity" :> last_activity) @@ base ELSE base
    IN  IF Truthy(last_error) THEN ("last_error" :> last_error) @@ act ELSE act

\* lines 142-154: the dict sent to both stores; optional fields are left out
\* when they are None or empty
PrepareData(agent_name, status, health, last_activity, last_error, t) ==
    LET base == [agent_name |-> agent_name, status |-> status,
                 health |-> health.v, updated_at |-> t]
        act  == IF Truthy(last_activity)
                THEN ("last_activity" :> last_activity) @@ base ELSE base
    IN  IF Truthy(last_error) THEN ("last_error" :> last_error) @@ act ELSE act

\* mutant: the save reports success without writing the file
SaveStatusLocally_WritesNothing(files, agent_name, status_data, io) == files

\* save_status_locally: a full overwrite of the agent's file; an I/O error is
\* swallowed and leaves the file as it was (open failed) or unreadable (the
\* write failed after the file was truncated)
SaveStatusLocally(files, agent_name, status_data, io) ==
    CASE io = "ok" ->
            [files EXCEPT ![StatusFileName(agent_name)] = status_data]
      [] io = "write_failed" ->
            [files EXCEPT ![StatusFileName(agent_name)] = Corrupt]
      [] OTHER -> files

\* mutant: the file is never found
GetLocalStatus_NeverFinds(files, agent_name) == NoFile

\* get_local_status: the dict of the file, None when absent or unreadable
GetLocalStatus(files, agent_name) ==
    LET f == files[StatusFileName(agent_name)]
    IN  IF f = NoFile \/ f = Corrupt THEN NoFile ELSE f

\* mutant: the PATCH is answered but changes no row
PatchRow_Nothing(table, agent_name, body) == table

\* the remote table's PATCH with filter agent_name=eq.<name>: the matching
\* row, if any, takes the fields of the body and keeps its other columns
PatchRow(table, agent_name, body) ==
    IF table[agent_name] = NoRow THEN table
    ELSE [table EXCEPT ![agent_name] =
            [k \in DOMAIN @ |-> IF k \in DOMAIN body THEN body[k] ELSE @[k]]]

\* mutant: only 200 is taken as success
Accepted_Only200(ans) == ans.kind = "http" /\ ans.code = 200

\* line 205: the answers the retry loop takes as success
Accepted(ans) == ans.kind = "http" /\ ans.code \in {200, 201, 204}

\* what the server did with a request, given the answer the client saw
MayBeApplied(ans) ==
    CASE ans.kind = "http" /\ ans.code \in {200, 201, 204} -> {TRUE}
      [] ans.kind = "http" /\ ans.code >= 400 -> {FALSE}
      [] OTHER -> {TRUE, FALSE}

CounterOf(a) ==
    IF consecutive_failed_updates[a] = Absent THEN 0
    ELSE consecutive_failed_updates[a]

\* update_agent_status, lines 127-157: the counter's entry, validation, the
\* dict and the local save
UpdateAgentStatus(a, status, health, last_activity, last_error, io) ==
    /\ pc[a] \in {"idle", "returned"}
    /\ call' = [call EXCEPT ![a] = [status |-> status, health |-> health,
                    last_activity |-> last_activity]]
    /\ consecutive_failed_updates' =
            [consecutive_failed_updates EXCEPT ![a] = CounterOf(a)]
    /\ probe' = [probe EXCEPT ![a] = "none"]
    /\ sent' = [sent EXCEPT ![a] = 0]
    /\ got2xx' = [got2xx EXCEPT ![a] = FALSE]
    /\ answered' = [answered EXCEPT ![a] = "none"]
    /\ got' = [got EXCEPT ![a] = NoRow]
    /\ attempt' = [attempt EXCEPT ![a] = 0]
    /\ UNCHANGED failures
    /\ IF ~ValidInputs(status, health)
       THEN /\ ret' = [ret EXCEPT ![a] = FALSE]
            /\ pc' = [pc EXCEPT ![a] = "returned"]
            /\ saved' = [saved EXCEPT ![a] = FALSE]
            /\ UNCHANGED <<data, cache>>
       ELSE /\ data' = [data EXCEPT ![a] =
                  PrepareData(a, status, health, last_activity, last_error, now)]
            /\ cache' = SaveStatusLocally(cache, a, data'[a], io)
            /\ saved' = [saved EXCEPT ![a] = (io = "ok")]
            /\ pc' = [pc EXCEPT ![a] =
                  IF io = "ok" \/ Caught("OSError", {"Exception"})
                  THEN "probe" ELSE "raised"]
            /\ UNCHANGED ret
    /\ UNCHANGED <<now, remote, creds>>
    /\ UNCHANGED <<proc, supVars, auxVars>>

\* mutant: the result of the probe is ignored
GivesUp_IgnoresProbe(reachable, hasCreds) == ~hasCreds

\* lines 160 and 179: the call gives up before any request
GivesUp(reachable, hasCreds) == ~reachable \/ ~hasCreds

\* lines 159-182: the network probe and the credentials check
ProbeNetwork(a, reachable) ==
    /\ pc[a] = "probe"
    /\ probe' = [probe EXCEPT ![a] = IF reachable THEN "up" ELSE "down"]
    /\ IF ~reachable /\ ~Caught("OSError", {"OSError"})
       THEN /\ pc' = [pc EXCEPT ![a] = "raised"]
            /\ UNCHANGED <<consecutive_failed_updates, ret, failures>>
       ELSE IF GivesUp(reachable, creds[a])
       THEN /\ consecutive_failed_updates' =
                  [consecutive_failed_updates EXCEPT ![a] = @ + 1]
            /\ ret' = [ret EXCEPT ![a] = FALSE]
            /\ failures' = [failures EXCEPT ![a] = @ + 1]
            /\ pc' = [pc EXCEPT ![a] = "returned"]
       ELSE /\ pc' = [pc EXCEPT ![a] = "patch"]
            /\ UNCHANGED <<consecutive_failed_updates, ret, failures>>
    /\ UNCHANGED <<now, remote, cache, creds, data, attempt, call, sent,
                   got2xx, answered, saved, got>>
    /\ UNCHANGED <<proc, supVars, auxVars>>

\* mutant: every attempt that is not accepted is counted
CountFailure_EveryAttempt(counter, ans, n) == counter + 1

\* an exception of the request that the clause of line 223 does not catch
Unexpected(ans) ==
    ans.kind # "http" /\ ~Caught(ExcClass(ans), {"RequestException"})

\* the counter after an attempt that was not accepted (lines 216, 227, 236)
CountFailure(counter, ans, n) ==
    IF Unexpected(ans) \/ n = MAX_RETRIES - 1 THEN counter + 1
    ELSE counter

\* mutant: the loop ends one attempt early
Retries_OneShort(ans, n) == ans.kind = "http" /\ n < MAX_RETRIES - 2

\* whether the loop goes on after an attempt that was not accepted
Retries(ans, n) == ~Unexpected(ans) /\ n < MAX_RETRIES - 1

\* lines 185-237: one pass of the retry loop
PatchAttempt(a, ans, applied) ==
    /\ pc[a] = "patch"
    /\ applied \in MayBeApplied(ans)
    /\ sent' = [sent EXCEPT ![a] = @ + 1]
    /\ got2xx' = [got2xx EXCEPT ![a] = @ \/ Is2xx(ans)]
    /\ answered' = [answered EXCEPT ![a] =
            CASE ans.kind = "http" /\ ans.code \in {200, 201, 204} -> "ok"
              [] ans.kind = "Exception" -> "unexpected"
              [] OTHER -> "failed"]
    /\ remote' = IF applied THEN PatchRow(remote, a, data[a]) ELSE remote
    /\ IF /\ ans.kind # "http"
          /\ ~Caught(ExcClass(ans), {"RequestException"})
          /\ ~Caught(ExcClass(ans), {"Exception"})
       THEN /\ pc' = [pc EXCEPT ![a] = "raised"]
            /\ UNCHANGED <<consecutive_failed_updates, ret, failures, attempt>>
       ELSE IF Accepted(ans)
       THEN /\ consecutive_failed_updates' =
                  [consecutive_failed_updates EXCEPT ![a] = 0]
            /\ ret' = [ret EXCEPT ![a] = TRUE]
            /\ failures' = [failures EXCEPT ![a] = 0]
            /\ pc' = [pc EXCEPT ![a] = "returned"]
            /\ UNCHANGED attempt
       ELSE /\ consecutive_failed_updates' =
                  [consecutive_failed_updates EXCEPT ![a] =
                      CountFailure(@, ans, attempt[a])]
            /\ IF Retries(ans, attempt[a])
               THEN /\ attempt' = [attempt EXCEPT ![a] = @ + 1]
                    /\ UNCHANGED <<ret, pc, failures>>
               ELSE /\ ret' = [ret EXCEPT ![a] = FALSE]
                    /\ failures' = [failures EXCEPT ![a] = @ + 1]
                    /\ pc' = [pc EXCEPT ![a] = "returned"]
                    /\ UNCHANGED attempt
    /\ UNCHANGED <<now, cache, creds, data, call, probe, saved, got>>
    /\ UNCHANGED <<proc, supVars, auxVars>>

\* send_heartbeat, report_warning, report_error, mark_agent_started,
\* mark_agent_stopped: update_agent_status with fixed arguments
SendHeartbeat(a, health, io) ==
    UpdateAgentStatus(a, "running", health, "Heartbeat", None, io)

ReportWarning(a, warning_message, health, io) ==
    UpdateAgentStatus(a, "warning", health, warning_message, None, io)

ReportError(a, error_message, health, io) ==
    UpdateAgentStatus(a, "error", health, "Error occurred", error_message, io)

MarkAgentStarted(a, io) ==
    UpdateAgentStatus(a, "running", IntV(100), "Agent started", None, io)

MarkAgentStopped(a, io) ==
    UpdateAgentStatus(a, "stopped", IntV(0), "Agent stopped", None, io)

\* mutant: the threshold is compared with > instead of >=
ShouldTerminate_Late(a) ==
    IF consecutive_failed_updates[a] = Absent THEN FALSE
    ELSE consecutive_failed_updates[a] > MAX_FAILED_UPDATES

\* should_terminate
ShouldTerminate(a) ==
    IF consecutive_failed_updates[a] = Absent THEN FALSE
    ELSE consecutive_failed_updates[a] >= MAX_FAILED_UPDATES

\* reset_failed_updates
ResetFailedUpdates(a) ==
    /\ pc[a] \in {"idle", "returned"}
    /\ consecutive_failed_updates[a] # 0
    /\ consecutive_failed_updates' =
            [consecutive_failed_updates EXCEPT ![a] = 0]
    /\ failures' = [failures EXCEPT ![a] = 0]
    /\ UNCHANGED <<now, remote, cache, creds, pc, data, attempt, ret, call,
                   probe, sent, got2xx, answered, saved, got>>
    /\ UNCHANGED <<proc, supVars, auxVars>>

(***************************************************************************)
(* agent_status_lock.py                                                    *)
(***************************************************************************)
\* get_agent_status: the first row of the answer; None when the request
\* fails, is not answered 200, or no row matches
ReadAgentStatus(table, agent_name, getok) ==
    IF getok THEN table[agent_name] ELSE NoRow

GetAgentStatus(a, getok) ==
    /\ pc[a] = "returned"
    /\ got' = [got EXCEPT ![a] = ReadAgentStatus(remote, a, getok)]
    /\ got'[a] # got[a]
    /\ UNCHANGED <<now, remote, cache, consecutive_failed_updates, creds, pc,
                   data, attempt, ret, history>>
    /\ UNCHANGED <<proc, supVars, auxVars>>

(***************************************************************************)
(* The clock.  A tick is longer than CHECK_INTERVAL, so the sleep of the    *)
(* supervisor's main loop (line 309) is over after it.                     *)
(***************************************************************************)
Tick ==
    /\ now + TickSeconds <= MaxTicks * TickSeconds
    /\ now' = now + TickSeconds
    /\ sup_pc' = IF sup_pc = "sleeping" THEN "idle" ELSE sup_pc
    /\ UNCHANGED <<remote, cache, proc, workerVars, auxVars>>
    /\ UNCHANGED <<supCreds, agents, idx, cycle, startNow, procAtStart, killed,
                   forced, wrote, stopAtStart>>

(***************************************************************************)
(* The reporter: worker processes calling the reporting API                *)
(***************************************************************************)
\* a row as the operator creates it, before any agent has written to it
ProvisionedRow ==
    [status |-> "stopped", health |-> 0, last_activity |-> None,
     last_error |-> None, updated_at |-> NullTS]

NoCall == [status |-> "", health |-> IntV(0), last_activity |-> None]

Workers == {NameTS}

Init ==
    /\ now = 0
    /\ remote \in [Agents -> {NoRow, ProvisionedRow}]
    /\ \A a \in Agents \ Workers : remote[a] = NoRow
    /\ cache = [f \in Files |-> NoFile]
    /\ consecutive_failed_updates = [a \in Agents |-> Absent]
    /\ creds \in [Agents -> BOOLEAN]
    /\ \A a \in Agents \ Workers : creds[a]
    /\ pc = [a \in Agents |-> "idle"]
    /\ data = [a \in Agents |-> NoRow]
    /\ attempt = [a \in Agents |-> 0]
    /\ ret = [a \in Agents |-> FALSE]
    /\ call = [a \in Agents |-> NoCall]
    /\ probe = [a \in Agents |-> "none"]
    /\ sent = [a \in Agents |-> 0]
    /\ got2xx = [a \in Agents |-> FALSE]
    /\ answered = [a \in Agents |-> "none"]
    /\ saved = [a \in Agents |-> FALSE]
    /\ failures = [a \in Agents |-> 0]
    /\ got = [a \in Agents |-> NoRow]
    /\ proc = [n \in ProcessNames |-> "none"]
    /\ supCreds = TRUE
    /\ sup_pc = "idle"
    /\ agents = <<>>
    /\ idx = 1
    /\ cycle = "none"
    /\ startNow = 0
    /\ procAtStart = proc
    /\ killed = {}
    /\ forced = {}
    /\ wrote = {}
    /\ stopAtStart = [a \in Agents |-> "no"]
    /\ IdleAux

\* arguments of the direct calls of update_agent_status:
\* <<status, health, last_activity, last_error>>
DirectCalls ==
    { <<"waiting", IntV(100), "work", None>>,
      <<"running", IntV(-1), "work", None>>,
      <<"running", IntV(101), "work", None>>,
      <<"running", NotInt, "work", None>>,
      <<"waiting", IntV(101), None, None>>,
      <<"running", IntV(50), None, None>>,
      <<"running", IntV(50), "", "">>,
      <<"warning", IntV(0), "work", None>> }

Next ==
    \/ \E a \in Workers, c \in DirectCalls, io \in IoOutcomes :
            /\ CounterOf(a) < MaxFails
            /\ UpdateAgentStatus(a, c[1], c[2], c[3], c[4], io)
    \/ \E a \in Workers, h \in {IntV(100), IntV(101)}, io \in IoOutcomes :
            CounterOf(a) < MaxFails /\ SendHeartbeat(a, h, io)
    \/ \E a \in Workers, io \in IoOutcomes :
            CounterOf(a) < MaxFails /\ ReportWarning(a, "work", IntV(75), io)
    \/ \E a \in Workers, io \in IoOutcomes :
            CounterOf(a) < MaxFails /\ ReportError(a, "boom", IntV(30), io)
    \/ \E a \in Workers, io \in IoOutcomes :
            CounterOf(a) < MaxFails /\ MarkAgentStarted(a, io)
    \/ \E a \in Workers, io \in IoOutcomes :
            CounterOf(a) < MaxFails /\ MarkAgentStopped(a, io)
    \/ \E a \in Workers, reachable \in BOOLEAN : ProbeNetwork(a, reachable)
    \/ \E a \in Workers, ans \in Answers, applied \in BOOLEAN :
            PatchAttempt(a, ans, applied)
    \/ \E a \in Workers, getok \in BOOLEAN : GetAgentStatus(a, getok)

Spec == Init /\ [][Next]_vars


(***************************************************************************)
(* Properties of the reporter, checked under Spec                          *)
(***************************************************************************)
\* the arguments a call must reject: a status outside the four values, or a
\* health that is not an integer in 0..100
ArgsValid(c) ==
    /\ c.status \in {"running", "warning", "error", "stopped"}
    /\ c.health.isint /\ c.health.v \in 0..100

Returned(a) == pc[a] = "returned"

\* C1: a call with an invalid status or an invalid health returns failure,
\* leaves the agent's local cache file and remote row as they were and
\* issues no request (it never reaches the probe or the retry loop).
C1_InvalidInputsRejected ==
    [][\A a \in Agents :
          ~ArgsValid(call'[a]) =>
              /\ pc'[a] \in {"idle", "returned"}
              /\ pc'[a] = "returned" =>
                    ~ret'[a] /\ sent'[a] = 0 /\ probe'[a] = "none"
              /\ cache'[StatusFileName(a)] = cache[StatusFileName(a)]
              /\ remote'[a] = remote[a]]_vars

\* an invalid call has returned after an earlier valid call wrote the file
C1_Witness ==
    \E a \in Agents :
        /\ Returned(a) /\ ~ArgsValid(call[a])
        /\ call[a].status = "running" /\ call[a].health = IntV(101)
        /\ cache[StatusFileName(a)] \notin {NoFile, Corrupt}
        /\ remote[a] # NoRow /\ remote[a].status = "warning"

\* C2 as stated: after a valid call returned, the local cache entry holds
\* the status and the health of the call.
C2_CacheHoldsPair ==
    \A a \in Agents :
        Returned(a) /\ ArgsValid(call[a]) =>
            LET f == cache[StatusFileName(a)]
            IN  /\ f \notin {NoFile, Corrupt}
                /\ f.status = call[a].status
                /\ f.health = call[a].health.v

\* C2 amended: after a valid call returned whose local save did not fail,
\* the local cache entry holds the status and the health of the call,
\* whatever the probe answered and however the remote write ended.
C2_CacheHoldsPairIfSaved ==
    \A a \in Agents :
        Returned(a) /\ ArgsValid(call[a]) /\ saved[a] =>
            LET f == cache[StatusFileName(a)]
            IN  /\ f \notin {NoFile, Corrupt}
                /\ f.status = call[a].status
                /\ f.health = call[a].health.v

\* a valid call saved locally and failed remotely after three requests
C2_Witness ==
    \E a \in Agents :
        /\ Returned(a) /\ ArgsValid(call[a]) /\ saved[a]
        /\ ~ret[a] /\ sent[a] = 3
        /\ cache[StatusFileName(a)].status = "error"
        /\ remote[a] # NoRow /\ remote[a].status # "error"

\* C3: when the probe answers unreachable, the call issues no PATCH, adds
\* exactly one to the agent's failure counter and returns failure.
C3_UnreachableSkipsRemote ==
    [][\A a \in Agents :
          pc[a] = "probe" /\ probe'[a] = "down" =>
              /\ sent[a] = 0 /\ sent'[a] = 0
              /\ remote' = remote
              /\ consecutive_failed_updates'[a] =
                    consecutive_failed_updates[a] + 1
              /\ pc'[a] = "returned" /\ ~ret'[a]]_vars

C3_Witness ==
    \E a \in Agents :
        /\ Returned(a) /\ probe[a] = "down" /\ creds[a]
        /\ consecutive_failed_updates[a] = 2

\* C6 as stated: at most 3 requests; an answer with a 2xx status ends the
\* call with success; failure is returned only after 3 failed requests.
C6_RetryUntil2xx ==
    \A a \in Agents :
        /\ sent[a] <= 3
        /\ got2xx[a] => Returned(a) /\ ret[a]
        /\ Returned(a) /\ sent[a] > 0 /\ ~ret[a] => sent[a] = 3

\* C6 amended: at most 3 requests; an answer with status 200, 201 or 204
\* ends the call with success; an attempt answered with another status or
\* ended by a RequestException is retried while attempts remain, and failure
\* is then returned only after 3 such attempts; an attempt ended by any other
\* exception ends the call with failure at once.
C6_RetryUntilAccepted ==
    \A a \in Agents :
        /\ sent[a] <= 3
        /\ answered[a] = "ok" => Returned(a) /\ ret[a]
        /\ answered[a] = "unexpected" => Returned(a) /\ ~ret[a]
        /\ answered[a] = "failed" /\ sent[a] < 3 => pc[a] = "patch"
        /\ answered[a] = "failed" /\ sent[a] = 3 => Returned(a) /\ ~ret[a]
        /\ pc[a] = "patch" => sent[a] < 3

\* three requests failed, one of them answered 2xx, and failure is returned
C6_Witness ==
    \E a \in Agents :
        Returned(a) /\ ~ret[a] /\ sent[a] = 3 /\ got2xx[a]
            /\ answered[a] = "failed"

\* C7 as stated: no call raises, and a call returns true exactly when one
\* of its requests was answered with a 2xx status.
C7_TrueIff2xx ==
    \A a \in Agents :
        /\ pc[a] # "raised"
        /\ Returned(a) => (ret[a] <=> got2xx[a])

\* C7 amended: no call raises, for any outcome of the local save, the probe
\* and the requests, and a call returns true exactly when one of its
\* requests was answered with status 200, 201 or 204.
C7_TrueIffAccepted ==
    \A a \in Agents :
        /\ pc[a] # "raised"
        /\ Returned(a) => (ret[a] <=> answered[a] = "ok")

\* mark_agent_stopped returned true on its second request although the
\* local save failed
C7_Witness ==
    \E a \in Agents :
        /\ Returned(a) /\ ret[a] /\ ~saved[a] /\ sent[a] = 2
        /\ call[a].last_activity = "Agent stopped"

\* C8 as stated: a read after a successful write returns the status, the
\* health and the last_activity of the call, an empty or absent
\* last_activity included.
C8_RoundTripAll ==
    \A a \in Agents :
        Returned(a) /\ ret[a] /\ got[a] # NoRow =>
            /\ got[a].status = call[a].status
            /\ got[a].health = call[a].health.v
            /\ got[a].last_activity = call[a].last_activity

\* C8 amended: a read after a successful write that returns a record returns
\* the status and the health of the call, and its last_activity when that
\* was given and not empty.
C8_RoundTripGiven ==
    \A a \in Agents :
        Returned(a) /\ ret[a] /\ got[a] # NoRow =>
            /\ got[a].status = call[a].status
            /\ got[a].health = call[a].health.v
            /\ Truthy(call[a].last_activity) =>
                  got[a].last_activity = call[a].last_activity

C8_Witness ==
    \E a \in Agents :
        /\ Returned(a) /\ ret[a] /\ got[a] # NoRow
        /\ call[a].last_activity = "Heartbeat" /\ got[a].health = 100
        /\ got[a].last_error = "boom"


(***************************************************************************)
(* The failure counter: one worker sending heartbeats and stopping, with   *)
(* every outcome of the probe and of the requests, up to MaxCount failures *)
(***************************************************************************)
NextCounter ==
    \/ \E a \in Workers, h \in {IntV(100), IntV(101)} :
            CounterOf(a) < MaxCount /\ SendHeartbeat(a, h, "ok")
    \/ \E a \in Workers :
            CounterOf(a) < MaxCount /\ MarkAgentStopped(a, "ok")
    \/ \E a \in Workers, reachable \in BOOLEAN : ProbeNetwork(a, reachable)
    \/ \E a \in Workers, ans \in Answers, applied \in BOOLEAN :
            PatchAttempt(a, ans, applied)

SpecCounter == Init /\ [][NextCounter]_vars

NextReset ==
    \/ NextCounter
    \/ \E a \in Workers : ResetFailedUpdates(a)

SpecReset == Init /\ [][NextReset]_vars

\* the step by which a call returns success
SuccessStep(a) == pc[a] = "patch" /\ pc'[a] = "returned" /\ ret'[a]

\* C4 as stated: after 5 failed calls in a row should_terminate is true, it
\* stays true until a call succeeds, and a successful call sets the counter
\* to zero and should_terminate to false.
C4_TerminateUntilSuccess ==
    [][\A a \in Agents :
          /\ failures'[a] >= 5 => ShouldTerminate(a)'
          /\ ShouldTerminate(a) /\ ~ShouldTerminate(a)' => SuccessStep(a)
          /\ SuccessStep(a) =>
                consecutive_failed_updates'[a] = 0 /\ ~ShouldTerminate(a)'
      ]_vars

\* C4 amended: within one worker process, after 5 failed calls in a row
\* should_terminate is true, it stays true until a call succeeds or
\* reset_failed_updates is called, and a successful call sets the counter to
\* zero and should_terminate to false.
C4_TerminateUntilSuccessOrReset ==
    [][\A a \in Agents :
          /\ failures'[a] >= 5 => ShouldTerminate(a)'
          /\ failures'[a] < 5 => ~ShouldTerminate(a)'
          /\ ShouldTerminate(a) /\ ~ShouldTerminate(a)' =>
                SuccessStep(a) \/ ResetFailedUpdates(a)
          /\ SuccessStep(a) =>
                consecutive_failed_updates'[a] = 0 /\ ~ShouldTerminate(a)'
      ]_vars

\* the fifth failed call in a row has returned
C4_Witness ==
    \E a \in Agents :
        Returned(a) /\ ~ret[a] /\ failures[a] = 5 /\ ShouldTerminate(a)

\* C5: between calls, the counter equals the number of valid calls that
\* returned failure since the last call that returned success.
C5_CounterCountsFailedCalls ==
    \A a \in Agents :
        pc[a] \in {"idle", "returned"} => CounterOf(a) = failures[a]

\* the third failed call in a row made three requests, the last one ended by
\* a RequestException, and the counter is 3
C5_Witness ==
    \E a \in Agents :
        /\ Returned(a) /\ ~ret[a] /\ sent[a] = 3 /\ ~got2xx[a]
        /\ failures[a] = 3 /\ consecutive_failed_updates[a] = 3


(***************************************************************************)
(* agent_status_monitor.py: the supervisor                                 *)
(***************************************************************************)
\* is_process_running: some process's command line holds the launch
\* identifier.  The process table is kept per launch identifier.
IsProcessRunning(table, process_name) == table[process_name] = "alive"

\* kill_process: SIGTERM, a second's wait, SIGKILL if the pid still exists;
\* an OSError of os.kill is caught and leaves the process as it was
KillProcess(table, process_name, killok) ==
    IF killok THEN [table EXCEPT ![process_name] = "none"] ELSE table

\* order=agent_name.asc over the three names of the model
ListOrder == <<NameCC, NameHT, NameTS>>

\* AGENT_PROCESS_NAMES.items(), in the order of the dict literal
ProcessOrder == <<NameTS, NameHT>>

\* list_all_agents: the rows of the table ordered by name; [] when the
\* credentials are missing, the request raises or is not answered 200
ListAllAgents(table, listok) ==
    IF ~listok THEN <<>>
    ELSE LET present == SelectSeq(ListOrder, LAMBDA n : table[n] # NoRow)
         IN  [i \in DOMAIN present |->
                 ("agent_name" :> present[i]) @@ table[present[i]]]

\* mutant: an entry whose health is 0 is passed over as well
Skipped_Unhealthy(agent) ==
    \/ agent.status = "stopped"
    \/ agent.agent_name \notin DOMAIN AGENT_PROCESS_NAMES
    \/ agent.health = 0

\* lines 154 and 159-160: entries the loop passes over
Skipped(agent) ==
    \/ agent.status = "stopped"
    \/ agent.agent_name \notin DOMAIN AGENT_PROCESS_NAMES

\* line 170: updated_at.replace(...) on JSON null raises AttributeError,
\* which the except clause of line 173 does not name
ParseRaises(updated_at) ==
    updated_at = NullTS /\ ~Caught("AttributeError", {"ValueError", "TypeError"})

\* mutant: a timestamp that cannot be read counts as just written
TimeSinceUpdate_UnreadableIsFresh(updated_at, t) ==
    IF updated_at = GarbageTS THEN 0 ELSE t - updated_at

\* lines 169-175: seconds since the update; a timestamp that fromisoformat
\* rejects, or that cannot be subtracted from now, counts as too old
TimeSinceUpdate(updated_at, t) ==
    IF updated_at = GarbageTS THEN MAX_RUNNING_TIME_WITHOUT_ACTIVITY + 1
    ELSE t - updated_at

\* mutant: every entry that is not skipped is corrected
NeedsFix_Always(status, is_running, time_since_update) == TRUE

\* lines 180-183: the correction rule
NeedsFix(status, is_running, time_since_update) ==
    /\ status = "running"
    /\ \/ ~is_running
       \/ time_since_update > MAX_RUNNING_TIME_WITHOUT_ACTIVITY

\* mutant: the reason is always the staleness
Reason_AlwaysStale(is_running) == "no activity for too long"

\* line 184
Reason(is_running) ==
    IF ~is_running THEN "process not running" ELSE "no activity for too long"

\* lines 203 and 211: f"Automatically stopped (reason: {reason})"
AutoStopped(reason) ==
    IF reason = "process not running"
    THEN "Automatically stopped (reason: process not running)"
    ELSE "Automatically stopped (reason: no activity for too long)"

\* force_agent_status, lines 51-56: the body of the forced PATCH
ForcedData(status, health, last_activity, t) ==
    [status |-> status, health |-> health, last_activity |-> last_activity,
     updated_at |-> t]

\* force_agent_status: one PATCH, no retry
ForceAgentStatus(table, agent_name, status, health, last_activity, t, applied) ==
    IF applied
    THEN PatchRow(table, agent_name, ForcedData(status, health, last_activity, t))
    ELSE table

\* lines 207-213, 258-264, 285-291: the dict the supervisor saves locally
LocalRecord(agent_name, status, health, last_activity, t) ==
    [agent_name |-> agent_name, status |-> status, health |-> health,
     last_activity |-> last_activity, updated_at |-> t]

\* how the agent's last call ended, when that was mark_agent_stopped
StopReturned(a) ==
    IF pc[a] = "returned" /\ call[a].status = "stopped"
    THEN IF ret[a] THEN "ok" ELSE "failed"
    ELSE "no"

\* lines 127-142: a cycle begins; the probe and the listing decide whether it
\* reads the remote list or the local files
BeginCycle(netup, listok) ==
    /\ sup_pc = "idle"
    /\ startNow' = now
    /\ procAtStart' = proc
    /\ stopAtStart' = [a \in Agents |-> StopReturned(a)]
    /\ killed' = {}
    /\ forced' = {}
    /\ wrote' = {}
    /\ idx' = 1
    /\ LET listing == IF netup THEN ListAllAgents(remote, supCreds /\ listok)
                      ELSE <<>>
       IN  IF listing = <<>>
           THEN /\ sup_pc' = "local"
                /\ cycle' = "local"
                /\ agents' = <<>>
           ELSE /\ sup_pc' = "remote"
                /\ cycle' = "remote"
                /\ agents' = listing
    /\ UNCHANGED <<now, remote, cache, proc, workerVars, supCreds, auxVars>>

\* mutant: the end of a pass ends the loop of main
NextEntry_Halts(len, here) ==
    IF idx = len
    THEN sup_pc' = "halted" /\ idx' = 1
    ELSE sup_pc' = here /\ idx' = idx + 1

\* the loop moves to its next entry, or the cycle ends and main sleeps
NextEntry(len, here) ==
    IF idx = len
    THEN sup_pc' = "sleeping" /\ idx' = 1
    ELSE sup_pc' = here /\ idx' = idx + 1

\* the outcomes of calls an entry does not make are not drawn
NoOutcome(killok, ans, io) == killok /\ ans = Http(200) /\ io = "ok"

\* lines 144-226: one entry of the remote list
CheckAgent(killok, ans, applied, io) ==
    /\ sup_pc = "remote"
    /\ applied \in MayBeApplied(ans)
    /\ LET agent == agents[idx]
           agent_name == agent.agent_name
       IN  IF Skipped(agent)
           THEN /\ NoOutcome(killok, ans, io)
                /\ NextEntry(Len(agents), "remote")
                /\ UNCHANGED <<remote, cache, proc, cycle, killed, forced,
                               wrote>>
           ELSE IF ParseRaises(agent.updated_at)
           THEN \* line 227: the handler around the whole loop
                /\ NoOutcome(killok, ans, io)
                /\ sup_pc' = "local"
                /\ idx' = 1
                /\ cycle' = "fallback"
                /\ UNCHANGED <<remote, cache, proc, killed, forced, wrote>>
           ELSE LET process_name == AGENT_PROCESS_NAMES[agent_name]
                    is_running == IsProcessRunning(proc, process_name)
                    time_since_update ==
                        TimeSinceUpdate(agent.updated_at, now)
                    last_activity == AutoStopped(Reason(is_running))
                IN  /\ NextEntry(Len(agents), "remote")
                    /\ UNCHANGED cycle
                    /\ IF NeedsFix(agent.status, is_running, time_since_update)
                       THEN /\ is_running \/ killok
                            /\ proc' = IF is_running
                                       THEN KillProcess(proc, process_name, killok)
                                       ELSE proc
                            /\ killed' = IF is_running
                                         THEN killed \cup {process_name}
                                         ELSE killed
                            /\ remote' = ForceAgentStatus(remote, agent_name,
                                    "stopped", 0, last_activity, now, applied)
                            /\ forced' = forced \cup {agent_name}
                            /\ cache' = SaveStatusLocally(cache, agent_name,
                                    LocalRecord(agent_name, "stopped", 0,
                                                last_activity, now), io)
                            /\ wrote' = wrote \cup {agent_name}
                       ELSE /\ NoOutcome(killok, ans, io)
                            /\ UNCHANGED <<remote, cache, proc, killed,
                                           forced, wrote>>
    /\ UNCHANGED <<now, workerVars, supCreds, agents, startNow, procAtStart,
                   stopAtStart, auxVars>>

\* mutant: a running process of an agent marked stopped is left alone
LocalAction_NeverKills(local_status, is_running) ==
    IF local_status = NoFile THEN "create"
    ELSE IF local_status.status = "running" /\ ~is_running THEN "mark_stopped"
    ELSE "nothing"

\* lines 248-291: what the local branch does with a record and a process flag
LocalAction(local_status, is_running) ==
    IF local_status = NoFile THEN "create"
    ELSE IF local_status.status = "running" /\ ~is_running THEN "mark_stopped"
    ELSE IF local_status.status = "stopped" /\ is_running THEN "kill"
    ELSE "nothing"

\* lines 239-293: one entry of the mapping, against the local files
CheckAgentLocal(killok, io) ==
    /\ sup_pc = "local"
    /\ LET agent_name == ProcessOrder[idx]
           process_name == AGENT_PROCESS_NAMES[agent_name]
           is_running == IsProcessRunning(proc, process_name)
           local_status == GetLocalStatus(cache, agent_name)
           action == LocalAction(local_status, is_running)
       IN  /\ NextEntry(Len(ProcessOrder), "local")
           /\ CASE action = "mark_stopped" ->
                    /\ killok
                    /\ cache' = SaveStatusLocally(cache, agent_name,
                           LocalRecord(agent_name, "stopped", 0,
                               "Automatically stopped (process not running)",
                               now), io)
                    /\ wrote' = wrote \cup {agent_name}
                    /\ UNCHANGED <<proc, killed>>
                [] action = "kill" ->
                    /\ io = "ok"
                    /\ proc' = KillProcess(proc, process_name, killok)
                    /\ killed' = killed \cup {process_name}
                    /\ UNCHANGED <<cache, wrote>>
                [] action = "create" ->
                    /\ killok
                    /\ cache' = SaveStatusLocally(cache, agent_name,
                           IF is_running
                           THEN LocalRecord(agent_name, "running", 100,
                                            "Process detected", now)
                           ELSE LocalRecord(agent_name, "stopped", 0,
                                            "Process not detected", now), io)
                    /\ wrote' = wrote \cup {agent_name}
                    /\ UNCHANGED <<proc, killed>>
                [] OTHER ->
                    /\ killok /\ io = "ok"
                    /\ UNCHANGED <<cache, wrote, proc, killed>>
    /\ UNCHANGED <<now, remote, workerVars, supCreds, agents, cycle, startNow,
                   procAtStart, forced, stopAtStart, auxVars>>

\* rows and files a cycle can meet: written by a worker's heartbeat or by its
\* mark_agent_stopped at time 0, or put into the table by its operator
RunningRow(t) ==
    [status |-> "running", health |-> 100, last_activity |-> "Heartbeat",
     last_error |-> None, updated_at |-> t]

StoppedRow(t) ==
    [status |-> "stopped", health |-> 0, last_activity |-> "Agent stopped",
     last_error |-> None, updated_at |-> t]

SupRows == {NoRow, RunningRow(0), StoppedRow(0), RunningRow(NullTS),
            RunningRow(GarbageTS)}

SupFiles(a) ==
    {NoFile,
     LocalRecord(a, "running", 100, "Heartbeat", 0),
     LocalRecord(a, "stopped", 0, "Agent stopped", 0)}

InitSup ==
    /\ now = 0
    /\ remote \in [Agents -> SupRows]
    /\ remote[NameCC] = RunningRow(0)
    /\ cache \in [Files -> UNION {SupFiles(a) : a \in Agents}]
    /\ \A a \in Agents : cache[StatusFileName(a)] \in SupFiles(a)
    /\ cache[StatusFileName(NameCC)] = NoFile
    /\ proc \in [ProcessNames -> {"none", "alive"}]
    /\ supCreds = TRUE
    /\ sup_pc = "idle"
    /\ agents = <<>>
    /\ idx = 1
    /\ cycle = "none"
    /\ startNow = 0
    /\ procAtStart = proc
    /\ killed = {}
    /\ forced = {}
    /\ wrote = {}
    /\ stopAtStart = [a \in Agents |-> "no"]
    /\ IdleAux
    /\ consecutive_failed_updates = [a \in Agents |-> Absent]
    /\ creds = [a \in Agents |-> TRUE]
    /\ pc = [a \in Agents |-> "idle"]
    /\ data = [a \in Agents |-> NoRow]
    /\ attempt = [a \in Agents |-> 0]
    /\ ret = [a \in Agents |-> FALSE]
    /\ call = [a \in Agents |-> NoCall]
    /\ probe = [a \in Agents |-> "none"]
    /\ sent = [a \in Agents |-> 0]
    /\ got2xx = [a \in Agents |-> FALSE]
    /\ answered = [a \in Agents |-> "none"]
    /\ saved = [a \in Agents |-> FALSE]
    /\ failures = [a \in Agents |-> 0]
    /\ got = [a \in Agents |-> NoRow]

\* answers to the forced PATCH: applied, refused, or lost on the way
ForceAnswers == {Http(200), Http(500), RequestException}

NextSup ==
    \/ Tick
    \/ \E netup \in BOOLEAN, listok \in BOOLEAN : BeginCycle(netup, listok)
    \/ \E killok \in BOOLEAN, ans \in ForceAnswers, applied \in BOOLEAN,
          io \in IoOutcomes : CheckAgent(killok, ans, applied, io)
    \/ \E killok \in BOOLEAN, io \in IoOutcomes : CheckAgentLocal(killok, io)

SpecSup == InitSup /\ [][NextSup]_vars

(***************************************************************************)
(* Properties of the supervisor, checked under SpecSup                     *)
(***************************************************************************)
\* a cycle that read the remote list has ended
RemoteCycleDone == sup_pc = "sleeping" /\ cycle \in {"remote", "fallback"}

\* the entry says running, its age can be computed, and the agent has a
\* launch identifier
RunningEntry(agent) ==
    /\ agent.status = "running"
    /\ agent.updated_at >= 0
    /\ agent.agent_name \in DOMAIN AGENT_PROCESS_NAMES

\* scenario A: running, older than the window when the cycle began, no process
ScenarioA(agent) ==
    /\ RunningEntry(agent)
    /\ startNow - agent.updated_at > 300
    /\ procAtStart[AGENT_PROCESS_NAMES[agent.agent_name]] = "none"

\* scenario B: running, inside the window when the cycle ended, process found
ScenarioB(agent) ==
    /\ RunningEntry(agent)
    /\ now - agent.updated_at <= 300
    /\ procAtStart[AGENT_PROCESS_NAMES[agent.agent_name]] = "alive"

\* C9: at the end of a cycle that read the remote list, every agent whose
\* entry was running, stale and without a process has been sent the forced
\* write of stopped, and no signal was sent to a process of its identifier.
C9_ScenarioA ==
    RemoteCycleDone =>
        \A i \in DOMAIN agents :
            ScenarioA(agents[i]) =>
                /\ agents[i].agent_name \in forced
                /\ AGENT_PROCESS_NAMES[agents[i].agent_name] \notin killed

\* the same, for the cycles whose loop over the remote list was not left by
\* an exception
C9_ScenarioA_LoopCompleted ==
    (sup_pc = "sleeping" /\ cycle = "remote") =>
        \A i \in DOMAIN agents :
            ScenarioA(agents[i]) =>
                /\ agents[i].agent_name \in forced
                /\ AGENT_PROCESS_NAMES[agents[i].agent_name] \notin killed

\* C10: at the end of a cycle that read the remote list, an agent whose entry
\* was running, inside the window and with its process found has not been
\* signalled, has not been sent a forced write, and its cache file has not
\* been written.
C10_ScenarioB ==
    RemoteCycleDone =>
        \A i \in DOMAIN agents :
            ScenarioB(agents[i]) =>
                /\ AGENT_PROCESS_NAMES[agents[i].agent_name] \notin killed
                /\ agents[i].agent_name \notin forced
                /\ agents[i].agent_name \notin wrote

\* the same, for the cycles whose loop over the remote list was not left by
\* an exception
C10_ScenarioB_LoopCompleted ==
    (sup_pc = "sleeping" /\ cycle = "remote") =>
        \A i \in DOMAIN agents :
            ScenarioB(agents[i]) =>
                /\ AGENT_PROCESS_NAMES[agents[i].agent_name] \notin killed
                /\ agents[i].agent_name \notin forced
                /\ agents[i].agent_name \notin wrote

\* scenario A acted on: a stale running entry without process, forced
ScenarioA_Reached ==
    /\ sup_pc = "sleeping" /\ cycle = "remote"
    /\ \E i \in DOMAIN agents :
          ScenarioA(agents[i]) /\ agents[i].agent_name \in forced

\* scenario B met: a fresh running entry with its process, left alone
ScenarioB_Reached ==
    /\ sup_pc = "sleeping" /\ cycle = "remote"
    /\ \E i \in DOMAIN agents :
          ScenarioB(agents[i]) /\ agents[i].agent_name \notin wrote


\* the step by which the supervisor handles one entry of its loop
SupervisorStep == idx' # idx \/ sup_pc' # sup_pc

\* the mapped agent the local loop is at, its record and its process
LocalAgent == ProcessOrder[idx]

LocalStopped(a) ==
    /\ cache[StatusFileName(a)] \notin {NoFile, Corrupt}
    /\ cache[StatusFileName(a)].status = "stopped"

\* C11: in a cycle that found the remote store unreachable, the step that
\* handles an agent whose local record says stopped while a process of its
\* launch identifier is running sends the termination signal to that process
\* and leaves every file of the local cache as it was.
C11_ScenarioC ==
    [][(/\ sup_pc = "local" /\ cycle = "local" /\ SupervisorStep
        /\ LocalStopped(LocalAgent)
        /\ proc[AGENT_PROCESS_NAMES[LocalAgent]] = "alive")
       => /\ AGENT_PROCESS_NAMES[LocalAgent] \in killed'
          /\ AGENT_PROCESS_NAMES[LocalAgent] \notin killed
          /\ cache' = cache
          /\ LocalAgent \notin wrote']_vars

\* a degraded cycle has ended in which the process of the agent marked
\* stopped was killed and its file still holds the record of time 0
C11_Witness ==
    /\ sup_pc = "sleeping" /\ cycle = "local"
    /\ procAtStart[AGENT_PROCESS_NAMES[NameTS]] = "alive"
    /\ proc[AGENT_PROCESS_NAMES[NameTS]] = "none"
    /\ AGENT_PROCESS_NAMES[NameTS] \in killed
    /\ cache[StatusFileName(NameTS)] =
           LocalRecord(NameTS, "stopped", 0, "Agent stopped", 0)
    /\ NameTS \notin wrote


(***************************************************************************)
(* A worker that stops, and the supervisor: the worker of "T S" has written *)
(* running at time 0, calls mark_agent_stopped once and then exits, while  *)
(* the supervisor runs its cycles.  The row of "H T" may be one whose       *)
(* updated_at is null.                                                     *)
(***************************************************************************)
\* the process of an agent ends (return of main, sys.exit, a crash)
ProcExit(a) ==
    /\ proc[AGENT_PROCESS_NAMES[a]] = "alive"
    /\ proc' = [proc EXCEPT ![AGENT_PROCESS_NAMES[a]] = "none"]
    /\ UNCHANGED <<now, remote, cache, workerVars, supVars, auxVars>>

\* the code of a worker runs only while its process does
WorkerAlive(a) == proc[AGENT_PROCESS_NAMES[a]] = "alive"

\* the worker state between calls, and the supervisor before its first cycle
IdleWorkers ==
    /\ consecutive_failed_updates = [a \in Agents |-> Absent]
    /\ creds = [a \in Agents |-> TRUE]
    /\ pc = [a \in Agents |-> "idle"]
    /\ data = [a \in Agents |-> NoRow]
    /\ attempt = [a \in Agents |-> 0]
    /\ ret = [a \in Agents |-> FALSE]
    /\ call = [a \in Agents |-> NoCall]
    /\ probe = [a \in Agents |-> "none"]
    /\ sent = [a \in Agents |-> 0]
    /\ got2xx = [a \in Agents |-> FALSE]
    /\ answered = [a \in Agents |-> "none"]
    /\ saved = [a \in Agents |-> FALSE]
    /\ failures = [a \in Agents |-> 0]
    /\ got = [a \in Agents |-> NoRow]

IdleCycle ==
    /\ supCreds = TRUE
    /\ sup_pc = "idle"
    /\ agents = <<>>
    /\ idx = 1
    /\ cycle = "none"
    /\ startNow = 0
    /\ procAtStart = proc
    /\ killed = {}
    /\ forced = {}
    /\ wrote = {}
    /\ stopAtStart = [a \in Agents |-> "no"]

IdleSupervisor == IdleCycle /\ IdleAux

InitStop ==
    /\ now = 0
    /\ remote \in [Agents -> {NoRow, RunningRow(0), RunningRow(NullTS)}]
    /\ remote[NameTS] = RunningRow(0)
    /\ remote[NameHT] # RunningRow(0)
    /\ remote[NameCC] = NoRow
    /\ cache = [f \in Files |->
                  IF f = StatusFileName(NameTS)
                  THEN LocalRecord(NameTS, "running", 100, "Heartbeat", 0)
                  ELSE NoFile]
    /\ proc = [n \in ProcessNames |->
                  IF n = AGENT_PROCESS_NAMES[NameTS] THEN "alive" ELSE "none"]
    /\ IdleWorkers
    /\ IdleSupervisor

NextStop ==
    \/ \E a \in Workers, io \in {"ok", "open_failed"} :
            /\ WorkerAlive(a) /\ pc[a] = "idle"
            /\ MarkAgentStopped(a, io)
    \/ \E a \in Workers, reachable \in BOOLEAN :
            WorkerAlive(a) /\ ProbeNetwork(a, reachable)
    \/ \E a \in Workers, ans \in Answers, applied \in BOOLEAN :
            WorkerAlive(a) /\ PatchAttempt(a, ans, applied)
    \/ \E a \in Workers : pc[a] = "returned" /\ ProcExit(a)
    \/ Tick
    \/ \E netup \in BOOLEAN, listok \in BOOLEAN : BeginCycle(netup, listok)
    \/ \E killok \in BOOLEAN, ans \in ForceAnswers, applied \in BOOLEAN,
          io \in IoOutcomes : CheckAgent(killok, ans, applied, io)
    \/ \E killok \in BOOLEAN, io \in IoOutcomes : CheckAgentLocal(killok, io)

SpecStop == InitStop /\ [][NextStop]_vars

\* the step leaves the agent alone: no signal, no forced write, no local write
NoActionOn(a) ==
    /\ AGENT_PROCESS_NAMES[a] \in killed' => AGENT_PROCESS_NAMES[a] \in killed
    /\ a \in forced' => a \in forced
    /\ a \in wrote' => a \in wrote
    /\ remote'[a] = remote[a]
    /\ cache'[StatusFileName(a)] = cache[StatusFileName(a)]

\* the step handles the entry of agent a, of the remote list or of the mapping
HandlesEntry(a) ==
    /\ SupervisorStep
    /\ \/ sup_pc = "remote" /\ agents[idx].agent_name = a
       \/ sup_pc = "local" /\ LocalAgent = a

\* C12 as stated: in a cycle begun after the agent's mark_agent_stopped
\* returned, the entry of the agent read from the remote list says stopped,
\* and the supervisor takes no action on the agent, in either mode.
C12_StoppedLeftAlone ==
    [][\A a \in Workers :
          HandlesEntry(a) /\ stopAtStart[a] # "no" =>
              /\ sup_pc = "remote" => agents[idx].status = "stopped"
              /\ NoActionOn(a)]_vars

\* C12 amended: in a cycle begun after the agent's mark_agent_stopped
\* returned true, the entry of the agent in the remote list says stopped and
\* the pass over the remote list takes no action on the agent, even while
\* its process is still running.
C12_StoppedLeftAloneByRemotePass ==
    [][\A a \in Workers :
          (/\ SupervisorStep /\ sup_pc = "remote"
           /\ agents[idx].agent_name = a /\ stopAtStart[a] = "ok") =>
              /\ agents[idx].status = "stopped"
              /\ NoActionOn(a)]_vars

\* a cycle over the remote list has ended that began after the call returned
\* true; the process is still running and nothing was done to the agent
C12_Witness ==
    /\ sup_pc = "sleeping" /\ cycle = "remote"
    /\ stopAtStart[NameTS] = "ok"
    /\ Len(agents) = 1 /\ agents[1].agent_name = NameTS
    /\ proc[AGENT_PROCESS_NAMES[NameTS]] = "alive"
    /\ killed = {} /\ forced = {} /\ wrote = {}
    /\ remote[NameTS].status = "stopped"


(***************************************************************************)
(* The supervisor polling with the remote store reachable: the probe       *)
(* answers, the listing is answered 200 and the forced PATCH is applied.   *)
(* main (lines 302-309) runs a cycle after every sleep, so every step of   *)
(* the supervisor and of the clock that can be taken is taken.             *)
(***************************************************************************)
InitReach ==
    /\ now = 0
    /\ remote \in [Agents -> {NoRow, RunningRow(0), StoppedRow(0),
                              RunningRow(NullTS)}]
    /\ remote[NameTS] \in {RunningRow(0), StoppedRow(0)}
    /\ remote[NameCC] = NoRow
    /\ cache \in [Files -> UNION {SupFiles(a) : a \in Agents}]
    /\ \A a \in Agents : cache[StatusFileName(a)] \in SupFiles(a)
    /\ cache[StatusFileName(NameCC)] = NoFile
    /\ cache[StatusFileName(NameHT)] = NoFile
    /\ proc \in [ProcessNames -> {"none", "alive"}]
    /\ IdleWorkers
    /\ IdleSupervisor

\* lines 302-309: the sleep between two cycles ends; the clock, once at its
\* bound, is read as before, so that the loop goes on for ever
Wake ==
    /\ now + TickSeconds > MaxTicks * TickSeconds
    /\ sup_pc = "sleeping"
    /\ sup_pc' = "idle"
    /\ UNCHANGED <<now, remote, cache, proc, workerVars, auxVars>>
    /\ UNCHANGED <<supCreds, agents, idx, cycle, startNow, procAtStart, killed,
                   forced, wrote, stopAtStart>>

NextReach ==
    \/ Tick
    \/ Wake
    \/ BeginCycle(TRUE, TRUE)
    \/ \E killok \in BOOLEAN, io \in IoOutcomes :
            CheckAgent(killok, Http(200), TRUE, io)
    \/ \E killok \in BOOLEAN, io \in IoOutcomes : CheckAgentLocal(killok, io)

SpecReach == InitReach /\ [][NextReach]_vars /\ WF_vars(NextReach)

\* the remote record of the agent says s
RemoteSays(a, s) == remote[a] # NoRow /\ remote[a].status = s

\* the supervisor polling, with every outcome of the probe, of the listing and
\* of the forced PATCH
NextPoll ==
    \/ NextSup
    \/ Wake

SpecPoll == InitReach /\ [][NextPoll]_vars /\ WF_vars(NextPoll)

\* both records of the agent say stopped
StoppedEverywhere(a) == RemoteSays(a, "stopped") /\ LocalStopped(a)

\* C13 as stated: whenever the record of a mapped agent says stopped, in the
\* remote table and in the local cache, while a process of its launch
\* identifier is running, then later the supervisor sends that process the
\* termination signal, or the record no longer says stopped, or the process
\* is gone.
C13_StoppedProcessKilled ==
    \A a \in DOMAIN AGENT_PROCESS_NAMES :
        (StoppedEverywhere(a) /\ proc[AGENT_PROCESS_NAMES[a]] = "alive")
        ~> \/ AGENT_PROCESS_NAMES[a] \in killed
           \/ ~StoppedEverywhere(a)
           \/ proc[AGENT_PROCESS_NAMES[a]] = "none"

\* C13 amended: whenever the supervisor is in a pass over the local files and
\* the local record of a mapped agent says stopped while a process of its
\* launch identifier is running, then later the supervisor sends that process
\* the termination signal, or the local record no longer says stopped, or the
\* process is gone.
C13_StoppedProcessKilledByLocalPass ==
    \A a \in DOMAIN AGENT_PROCESS_NAMES :
        (sup_pc = "local" /\ LocalStopped(a)
            /\ proc[AGENT_PROCESS_NAMES[a]] = "alive")
        ~> \/ AGENT_PROCESS_NAMES[a] \in killed
           \/ ~LocalStopped(a)
           \/ proc[AGENT_PROCESS_NAMES[a]] = "none"

\* a later pass over the local files has signalled again a process that the
\* kill of an earlier cycle did not end
C13_Witness ==
    /\ now > 0 /\ sup_pc = "sleeping" /\ cycle = "local"
    /\ LocalStopped(NameTS)
    /\ AGENT_PROCESS_NAMES[NameTS] \in killed
    /\ proc[AGENT_PROCESS_NAMES[NameTS]] = "alive"

\* C14: whenever the remote record of a mapped agent says running while no
\* process of its launch identifier exists, the record later says stopped.
C14_CrashedBecomesStopped ==
    \A a \in DOMAIN AGENT_PROCESS_NAMES :
        (RemoteSays(a, "running") /\ proc[AGENT_PROCESS_NAMES[a]] = "none")
        ~> RemoteSays(a, "stopped")

\* the same, for the agents whose updated_at is a timestamp in a table in
\* which no row has a null updated_at
C14_CrashedBecomesStopped_NoNullRow ==
    \A a \in DOMAIN AGENT_PROCESS_NAMES :
        (/\ RemoteSays(a, "running") /\ proc[AGENT_PROCESS_NAMES[a]] = "none"
         /\ \A b \in Agents : remote[b] = NoRow \/ remote[b].updated_at # NullTS)
        ~> RemoteSays(a, "stopped")


\* the local record of the agent says running
LocalRunning(a) ==
    /\ cache[StatusFileName(a)] \notin {NoFile, Corrupt}
    /\ cache[StatusFileName(a)].status = "running"

\* C15: a pass over the local files of a degraded cycle corrects an agent whose local record says
\* running (signals its process if one is found and writes stopped to its
\* file) exactly when the correction rule of the normal pass holds for the
\* same process flag and the same age of updated_at.
C15_LocalPassDecidesAsRemotePass ==
    [][(/\ sup_pc = "local" /\ cycle = "local" /\ SupervisorStep
        /\ LocalRunning(LocalAgent)) =>
          LET a == LocalAgent
              is_running == proc[AGENT_PROCESS_NAMES[a]] = "alive"
              age == TimeSinceUpdate(cache[StatusFileName(a)].updated_at, now)
              corrected ==
                  /\ a \in wrote' /\ a \notin wrote
                  /\ is_running => AGENT_PROCESS_NAMES[a] \in killed'
          IN  corrected <=> NeedsFix("running", is_running, age)]_vars

\* the same for the records that are not older than the window
C15_LocalPassDecidesAsRemotePass_Fresh ==
    [][(/\ sup_pc = "local" /\ cycle = "local" /\ SupervisorStep
        /\ LocalRunning(LocalAgent)
        /\ now - cache[StatusFileName(LocalAgent)].updated_at
              <= MAX_RUNNING_TIME_WITHOUT_ACTIVITY) =>
          LET a == LocalAgent
              is_running == proc[AGENT_PROCESS_NAMES[a]] = "alive"
              age == TimeSinceUpdate(cache[StatusFileName(a)].updated_at, now)
              corrected ==
                  /\ a \in wrote' /\ a \notin wrote
                  /\ is_running => AGENT_PROCESS_NAMES[a] \in killed'
          IN  corrected <=> NeedsFix("running", is_running, age)]_vars


\* C16: at the end of a cycle that read the remote list, every entry that can
\* be evaluated (a mapped agent, status running, updated_at not null) and
\* whose process was not found has been reconciled against its remote record:
\* it has been sent the forced write of stopped, whatever the other entries
\* of the list were.
C16_ExceptionConfined ==
    RemoteCycleDone =>
        \A i \in DOMAIN agents :
            (/\ agents[i].agent_name \in DOMAIN AGENT_PROCESS_NAMES
             /\ agents[i].status = "running"
             /\ agents[i].updated_at # NullTS
             /\ procAtStart[AGENT_PROCESS_NAMES[agents[i].agent_name]] = "none")
            => agents[i].agent_name \in forced

\* the same, for the lists in which no entry has a null updated_at
C16_ExceptionConfined_NoNullRow ==
    (RemoteCycleDone /\ \A j \in DOMAIN agents : agents[j].updated_at # NullTS)
    =>  \A i \in DOMAIN agents :
            (/\ agents[i].agent_name \in DOMAIN AGENT_PROCESS_NAMES
             /\ agents[i].status = "running"
             /\ procAtStart[AGENT_PROCESS_NAMES[agents[i].agent_name]] = "none")
            => agents[i].agent_name \in forced


(***************************************************************************)
(* One worker and the supervisor writing the same row: the worker of "T S" *)
(* sends heartbeats while the supervisor runs its cycles.  A second passes *)
(* at any moment; the long ticks pass between the calls of the worker.     *)
(***************************************************************************)
\* a second of the clock
Second ==
    /\ now % TickSeconds < MaxSeconds
    /\ now' = now + 1
    /\ UNCHANGED <<remote, cache, proc, workerVars, supVars, auxVars>>

InitRace ==
    /\ now = 0
    /\ remote = [a \in Agents |-> IF a = NameTS THEN RunningRow(0) ELSE NoRow]
    /\ cache = [f \in Files |->
                  IF f = StatusFileName(NameTS)
                  THEN LocalRecord(NameTS, "running", 100, "Heartbeat", 0)
                  ELSE NoFile]
    /\ proc = [n \in ProcessNames |->
                  IF n = AGENT_PROCESS_NAMES[NameTS] THEN "alive" ELSE "none"]
    /\ IdleWorkers
    /\ IdleSupervisor

NextRace ==
    \/ \E a \in Workers :
            /\ WorkerAlive(a) /\ CounterOf(a) < MaxFails
            /\ SendHeartbeat(a, IntV(100), "ok")
    \/ \E a \in Workers, reachable \in BOOLEAN :
            WorkerAlive(a) /\ ProbeNetwork(a, reachable)
    \/ \E a \in Workers, ans \in ForceAnswers, applied \in BOOLEAN :
            WorkerAlive(a) /\ PatchAttempt(a, ans, applied)
    \/ (\A a \in Workers : pc[a] \in {"idle", "returned"}) /\ Tick
    \/ Second
    \/ \E netup \in BOOLEAN, listok \in BOOLEAN : BeginCycle(netup, listok)
    \/ \E killok \in BOOLEAN, ans \in ForceAnswers, applied \in BOOLEAN,
          io \in IoOutcomes : CheckAgent(killok, ans, applied, io)
    \/ \E killok \in BOOLEAN, io \in IoOutcomes : CheckAgentLocal(killok, io)

SpecRace == InitRace /\ [][NextRace]_vars

\* C17: no step makes the updated_at of an agent's remote record smaller.
C17_UpdatedAtNeverDecreases ==
    [][\A a \in Agents :
          (remote[a] # NoRow /\ remote'[a] # NoRow) =>
              remote'[a].updated_at >= remote[a].updated_at]_vars

\* the same, for the steps of the supervisor
C17_UpdatedAtNeverDecreases_Supervisor ==
    [][SupervisorStep =>
          \A a \in Agents :
              (remote[a] # NoRow /\ remote'[a] # NoRow) =>
                  remote'[a].updated_at >= remote[a].updated_at]_vars


(***************************************************************************)
(* The last_error of a record.                                             *)
(***************************************************************************)
IsRecord(r) == r \notin {NoRow, NoFile, Corrupt}

CarriesLastError(r) == "last_error" \in DOMAIN r /\ Truthy(r.last_error)

\* C18: a remote record or a local cache entry carries a last_error only
\* when its status is error.
C18_LastErrorOnlyWithError ==
    \A a \in Agents :
        /\ (IsRecord(remote[a]) /\ CarriesLastError(remote[a]))
                => remote[a].status = "error"
        /\ (IsRecord(cache[StatusFileName(a)])
                /\ CarriesLastError(cache[StatusFileName(a)]))
                => cache[StatusFileName(a)].status = "error"

\* the same, for the local cache entries only
C18_LastErrorOnlyWithError_LocalCache ==
    \A a \in Agents :
        (IsRecord(cache[StatusFileName(a)])
            /\ CarriesLastError(cache[StatusFileName(a)]))
            => cache[StatusFileName(a)].status = "error"


(***************************************************************************)
(* Two reporters whose names give the same cache file: AGENT_NAME is       *)
(* "Tweet Scraping Agent" in 2_langchain_tweet_scraping_agent_simple.py    *)
(* and "tweet_scraping_agent" in 2_langchain_tweet_scraping_agent.py.      *)
(***************************************************************************)
NameSnakeTS == <<"t", "_", "s">>

Names == Agents \cup {NameSnakeTS}

Reporters == {NameTS, NameSnakeTS}

InitNames ==
    /\ now = 0
    /\ remote = [a \in Names |-> IF a \in Reporters THEN ProvisionedRow
                                 ELSE NoRow]
    /\ cache = [f \in Files |-> NoFile]
    /\ consecutive_failed_updates = [a \in Names |-> Absent]
    /\ creds = [a \in Names |-> TRUE]
    /\ pc = [a \in Names |-> "idle"]
    /\ data = [a \in Names |-> NoRow]
    /\ attempt = [a \in Names |-> 0]
    /\ ret = [a \in Names |-> FALSE]
    /\ call = [a \in Names |-> NoCall]
    /\ probe = [a \in Names |-> "none"]
    /\ sent = [a \in Names |-> 0]
    /\ got2xx = [a \in Names |-> FALSE]
    /\ answered = [a \in Names |-> "none"]
    /\ saved = [a \in Names |-> FALSE]
    /\ failures = [a \in Names |-> 0]
    /\ got = [a \in Names |-> NoRow]
    /\ proc = [n \in ProcessNames |-> "alive"]
    /\ IdleSupervisor

NextNames ==
    \/ \E io \in {"ok", "open_failed"} :
            /\ CounterOf(NameSnakeTS) < 1
            /\ SendHeartbeat(NameSnakeTS, IntV(100), io)
    \/ \E a \in Workers :
            CounterOf(a) < 1 /\ ReportWarning(a, "work", IntV(75), "ok")
    \/ \E a \in Workers :
            CounterOf(a) < 1 /\ ReportError(a, "boom", IntV(30), "ok")
    \/ \E a \in Workers :
            CounterOf(a) < 1 /\ MarkAgentStarted(a, "ok")
    \/ \E a \in Workers :
            CounterOf(a) < 1 /\ MarkAgentStopped(a, "ok")
    \/ \E a \in Reporters, reachable \in BOOLEAN : ProbeNetwork(a, reachable)
    \/ \E a \in Reporters, ans \in {Http(200), Http(500)} :
            PatchAttempt(a, ans, Is2xx(ans))
    \/ \E a \in Workers, getok \in BOOLEAN : GetAgentStatus(a, getok)
    \/ \E a \in Workers : ResetFailedUpdates(a)

SpecNames == InitNames /\ [][NextNames]_vars

\* the step is a step of a reporter operation called for agent a
ReporterStep(a) ==
    <<pc[a], call[a], attempt[a], probe[a], sent[a], got[a], failures[a]>>'
        # <<pc[a], call[a], attempt[a], probe[a], sent[a], got[a], failures[a]>>

\* C19: a step of a reporter operation called for agent a leaves the remote
\* record, the local cache entry and the failure counter of every other agent
\* as they were, and changes no process.
C19_ReporterFrame ==
    [][\A a \in Names :
          ReporterStep(a) =>
              /\ \A b \in Names \ {a} :
                    /\ remote'[b] = remote[b]
                    /\ cache'[StatusFileName(b)] = cache[StatusFileName(b)]
                    /\ consecutive_failed_updates'[b] =
                            consecutive_failed_updates[b]
              /\ proc' = proc]_vars

\* the same, the cache entries being those of the agents whose file is not
\* the file of a
C19_ReporterFrame_OtherFiles ==
    [][\A a \in Names :
          ReporterStep(a) =>
              /\ \A b \in Names \ {a} :
                    /\ remote'[b] = remote[b]
                    /\ StatusFileName(b) # StatusFileName(a) =>
                          cache'[StatusFileName(b)] = cache[StatusFileName(b)]
                    /\ consecutive_failed_updates'[b] =
                            consecutive_failed_updates[b]
              /\ proc' = proc]_vars


(***************************************************************************)
(* The rows of the remote table.                                           *)
(***************************************************************************)
\* the call in progress is mark_agent_started
StartedCall(a) ==
    call[a].status = "running" /\ call[a].last_activity = "Agent started"

\* C20: the step by which mark_agent_started returns success for a name
\* without a row leaves a running row for that name, and no step removes a
\* row of the remote table.
C20_RecordLifecycle ==
    [][\A a \in Agents :
          /\ (SuccessStep(a) /\ StartedCall(a) /\ remote[a] = NoRow)
                => (remote'[a] # NoRow /\ remote'[a].status = "running")
          /\ remote[a] # NoRow => remote'[a] # NoRow]_vars

\* no step removes a row of the remote table, and none adds one
C20_RowsNeitherRemovedNorCreated ==
    [][\A a \in Agents : (remote[a] = NoRow) <=> (remote'[a] = NoRow)]_vars


(***************************************************************************)
(* What the supervisor writes, and when.                                   *)
(***************************************************************************)
\* the step issues a write of a record of agent a, or changes one
SupWrites(a) ==
    \/ a \in forced' \ forced
    \/ a \in wrote' \ wrote
    \/ remote'[a] # remote[a]
    \/ cache'[StatusFileName(a)] # cache[StatusFileName(a)]

\* the record the pass read for agent a says running, and no process of a is
\* found or the record is older than the staleness window
RuleHeldFor(a) ==
    \/ /\ sup_pc = "remote"
       /\ agents[idx].agent_name = a
       /\ a \in DOMAIN AGENT_PROCESS_NAMES
       /\ agents[idx].status = "running"
       /\ \/ proc[AGENT_PROCESS_NAMES[a]] # "alive"
          \/ TimeSinceUpdate(agents[idx].updated_at, now)
                > MAX_RUNNING_TIME_WITHOUT_ACTIVITY
    \/ /\ sup_pc = "local"
       /\ LocalAgent = a
       /\ LocalRunning(a)
       /\ proc[AGENT_PROCESS_NAMES[a]] # "alive"

\* the records of a that the step changed say stopped with health 0
WrittenStopped(a) ==
    /\ remote'[a] # remote[a] =>
            (remote'[a].status = "stopped" /\ remote'[a].health = 0)
    /\ (cache'[StatusFileName(a)] # cache[StatusFileName(a)]
            /\ IsRecord(cache'[StatusFileName(a)])) =>
            /\ cache'[StatusFileName(a)].status = "stopped"
            /\ cache'[StatusFileName(a)].health = 0

\* the local pass finds no readable file of a and writes one that says what
\* the process table says
CreatesFor(a) ==
    /\ sup_pc = "local"
    /\ LocalAgent = a
    /\ ~IsRecord(cache[StatusFileName(a)])
    /\ remote' = remote
    /\ IsRecord(cache'[StatusFileName(a)]) =>
          LET alive == proc[AGENT_PROCESS_NAMES[a]] = "alive"
          IN  /\ cache'[StatusFileName(a)].status =
                      (IF alive THEN "running" ELSE "stopped")
              /\ cache'[StatusFileName(a)].health = (IF alive THEN 100 ELSE 0)

RuleFires ==
    /\ sup_pc = "remote"
    /\ agents[idx].updated_at # NullTS
    /\ RuleHeldFor(agents[idx].agent_name)

\* the lastActivity the correction is to write, given the process table
ExpectedActivity(a) ==
    IF proc[AGENT_PROCESS_NAMES[a]] = "alive"
    THEN "Automatically stopped (reason: no activity for too long)"
    ELSE "Automatically stopped (reason: process not running)"

\* the record says stopped, health 0 and the given lastActivity
SaysStopped(r, activity) ==
    r.status = "stopped" /\ r.health = 0 /\ r.last_activity = activity

HealthValues == {0, 50, 100}

TwinRow(status, health, t) ==
    [status |-> status, health |-> health, last_activity |-> "work",
     last_error |-> None, updated_at |-> t]

InitTwin ==
    /\ now = 0
    /\ \E status \in {"running", "stopped"}, t \in {0, NullTS, GarbageTS},
          h1 \in HealthValues, h2 \in HealthValues :
            remote = [a \in Agents |->
                        IF a = NameTS THEN TwinRow(status, h1, t)
                        ELSE IF a = NameHT THEN TwinRow(status, h2, t)
                        ELSE NoRow]
    /\ \/ cache = [f \in Files |-> NoFile]
       \/ \E status \in {"running", "stopped"},
             h1 \in HealthValues, h2 \in HealthValues :
            cache = [f \in Files |->
                        IF f = StatusFileName(NameTS)
                        THEN LocalRecord(NameTS, status, h1, "work", 0)
                        ELSE IF f = StatusFileName(NameHT)
                        THEN LocalRecord(NameHT, status, h2, "work", 0)
                        ELSE NoFile]
    /\ \E p \in {"none", "alive"} : proc = [n \in ProcessNames |-> p]
    /\ IdleWorkers
    /\ IdleSupervisor

\* the clock advances before the cycle; the cycle is the only one
NextTwin ==
    \/ sup_pc = "idle" /\ Tick
    \/ \E netup \in BOOLEAN, listok \in BOOLEAN : BeginCycle(netup, listok)
    \/ \E killok \in BOOLEAN : CheckAgent(killok, Http(200), TRUE, "ok")
    \/ \E killok \in BOOLEAN : CheckAgentLocal(killok, "ok")

SpecTwin == InitTwin /\ [][NextTwin]_vars

\* the record without the name of its agent
Nameless(r) == [k \in DOMAIN r \ {"agent_name"} |-> r[k]]

\* C25: at the end of the cycle the two agents, which differ in health
\* only, have been sent the same kills and the same writes, and the records
\* written are the same.
C25_HealthDecidesNothing ==
    sup_pc = "sleeping" =>
        /\ (AGENT_PROCESS_NAMES[NameTS] \in killed)
                <=> (AGENT_PROCESS_NAMES[NameHT] \in killed)
        /\ (NameTS \in forced) <=> (NameHT \in forced)
        /\ (NameTS \in wrote) <=> (NameHT \in wrote)
        /\ NameTS \in forced => remote[NameTS] = remote[NameHT]
        /\ NameTS \in wrote =>
                Nameless(cache[StatusFileName(NameTS)])
                    = Nameless(cache[StatusFileName(NameHT)])

\* a cycle over the remote list has corrected both agents, whose records
\* had different health values
C25_Witness ==
    /\ sup_pc = "sleeping" /\ cycle = "remote"
    /\ NameTS \in forced /\ NameHT \in forced
    /\ \E i \in DOMAIN agents, j \in DOMAIN agents :
            /\ agents[i].agent_name = NameTS
            /\ agents[j].agent_name = NameHT
            /\ agents[i].health = 0
            /\ agents[j].health = 100


(***************************************************************************)
(* The loop of main.                                                       *)
(***************************************************************************)
\* C26: whatever happens in a cycle (the probe or the listing fails, an
\* entry raises, a kill or a write fails), the cycle ends, main sleeps and
\* another cycle begins: the supervisor sleeps again and again, and is in a
\* pass again and again.
C26_LoopNeverEnds ==
    /\ []<>(sup_pc = "sleeping")
    /\ []<>(sup_pc \in {"remote", "local"})

\* a cycle in which an entry raised has begun after an earlier cycle wrote a
\* local file
C26_Witness ==
    /\ sup_pc = "local" /\ cycle = "fallback"
    /\ \E a \in DOMAIN AGENT_PROCESS_NAMES :
            /\ IsRecord(cache[StatusFileName(a)])
            /\ cache[StatusFileName(a)].last_activity
                    \in {"Process detected", "Process not detected"}
            /\ cache[StatusFileName(a)].updated_at < startNow


(***************************************************************************)
(* The record at the moment of the kill.                                   *)
(***************************************************************************)
\* the remote record of a says running and is inside the staleness window
FreshRunning(a) ==
    /\ RemoteSays(a, "running")
    /\ remote[a].updated_at >= 0
    /\ now - remote[a].updated_at <= MAX_RUNNING_TIME_WITHOUT_ACTIVITY

\* C27: no step of the pass over the remote list signals the process of an
\* agent, or sends the forced write for it, while the agent's remote record
\* says running with an updated_at inside the staleness window.
C27_FreshRecordNotKilled ==
    [][\A a \in DOMAIN AGENT_PROCESS_NAMES :
          (/\ sup_pc = "remote"
           /\ \/ AGENT_PROCESS_NAMES[a] \in killed' \ killed
              \/ a \in forced' \ forced
           /\ proc[AGENT_PROCESS_NAMES[a]] = "alive")
          => ~FreshRunning(a)]_vars

\* the same, for the entry of the list read at the start of the cycle
C27_FreshEntryNotKilled ==
    [][\A a \in DOMAIN AGENT_PROCESS_NAMES :
          (/\ sup_pc = "remote"
           /\ \/ AGENT_PROCESS_NAMES[a] \in killed' \ killed
              \/ a \in forced' \ forced
           /\ proc[AGENT_PROCESS_NAMES[a]] = "alive")
          => /\ agents[idx].agent_name = a
             /\ agents[idx].status = "running"
             /\ TimeSinceUpdate(agents[idx].updated_at, now)
                    > MAX_RUNNING_TIME_WITHOUT_ACTIVITY]_vars


(***************************************************************************)
(* A request on the wire when its sender ends: the worker's process ended  *)
(* inside requests.patch, after the request was sent; the table applies    *)
(* the request when it arrives.                                            *)
(***************************************************************************)
PatchInFlight(a) ==
    /\ pc[a] = "patch"
    /\ ~WorkerAlive(a)
    /\ remote' = PatchRow(remote, a, data[a])
    /\ pc' = [pc EXCEPT ![a] = "idle"]
    /\ UNCHANGED <<now, cache, consecutive_failed_updates, creds, data,
                   attempt, ret, history, got>>
    /\ UNCHANGED <<proc, supVars, auxVars>>

NextFlight ==
    \/ NextRace
    \/ \E a \in Workers : PatchInFlight(a)

SpecFlight == InitRace /\ [][NextFlight]_vars

\* the remote record of a was set to stopped by the supervisor
ForcedStopped(a) ==
    /\ RemoteSays(a, "stopped")
    /\ remote[a].last_activity \in
            {"Automatically stopped (reason: process not running)",
             "Automatically stopped (reason: no activity for too long)"}

\* C28: once the supervisor has set the remote record of an agent to
\* stopped and no process of the agent exists, the record says stopped after
\* every step, unless a process of the agent exists again.
C28_StoppedStaysStopped ==
    [][\A a \in DOMAIN AGENT_PROCESS_NAMES :
          (ForcedStopped(a) /\ proc[AGENT_PROCESS_NAMES[a]] = "none")
          => \/ remote'[a] # NoRow /\ remote'[a].status = "stopped"
             \/ proc'[AGENT_PROCESS_NAMES[a]] = "alive"]_vars

\* the same, for the steps of the supervisor
C28_StoppedStaysStopped_Supervisor ==
    [][\A a \in DOMAIN AGENT_PROCESS_NAMES :
          (SupervisorStep /\ ForcedStopped(a)
              /\ proc[AGENT_PROCESS_NAMES[a]] = "none")
          => remote'[a] # NoRow /\ remote'[a].status = "stopped"]_vars


(***************************************************************************)
(* A timestamp that cannot be read.                                        *)
(***************************************************************************)
\* the entry at hand is running, mapped, and its updated_at makes line 170
\* or line 171 raise ValueError or TypeError
UnreadableEntry ==
    /\ sup_pc = "remote"
    /\ agents[idx].agent_name \in DOMAIN AGENT_PROCESS_NAMES
    /\ agents[idx].status = "running"
    /\ agents[idx].updated_at = GarbageTS

\* C29: the step of the normal pass over a running entry whose updated_at
\* cannot be read signals the process if one is found and sends the forced
\* write of stopped, with 'no activity for too long' when a process is found
\* and 'process not running' when none is; the entry is never passed over.
C29_UnreadableTimestampIsStale ==
    [][(UnreadableEntry /\ SupervisorStep) =>
          LET a == agents[idx].agent_name
          IN  /\ a \in forced'
              /\ a \in wrote'
              /\ proc[AGENT_PROCESS_NAMES[a]] = "alive"
                    => AGENT_PROCESS_NAMES[a] \in killed'
              /\ remote'[a] # remote[a]
                    => SaysStopped(remote'[a], ExpectedActivity(a))]_vars

\* a running agent with an unreadable updated_at and a live process has been
\* signalled and its record says stopped for want of activity
C29_Witness ==
    /\ cycle = "remote"
    /\ \E i \in DOMAIN agents :
            /\ agents[i].agent_name = NameTS
            /\ agents[i].status = "running"
            /\ agents[i].updated_at = GarbageTS
    /\ procAtStart[AGENT_PROCESS_NAMES[NameTS]] = "alive"
    /\ AGENT_PROCESS_NAMES[NameTS] \in killed
    /\ proc[AGENT_PROCESS_NAMES[NameTS]] = "none"
    /\ NameTS \in forced
    /\ IsRecord(remote[NameTS])
    /\ SaysStopped(remote[NameTS],
                   "Automatically stopped (reason: no activity for too long)")


(***************************************************************************)
(* The supervisor over records that say warning or error.                  *)
(***************************************************************************)
WarningRow(t) ==
    [status |-> "warning", health |-> 75, last_activity |-> "work",
     last_error |-> None, updated_at |-> t]

ErrorRow(t) ==
    [status |-> "error", health |-> 30, last_activity |-> "Error occurred",
     last_error |-> "boom", updated_at |-> t]

InitWarn ==
    /\ now = 0
    /\ remote \in [Agents -> {NoRow, RunningRow(0), RunningRow(NullTS),
                              WarningRow(0), WarningRow(NullTS),
                              WarningRow(GarbageTS), ErrorRow(0)}]
    /\ remote[NameTS] \in {WarningRow(0), WarningRow(NullTS),
                           WarningRow(GarbageTS), ErrorRow(0)}
    /\ remote[NameHT] \in {NoRow, RunningRow(0), RunningRow(NullTS)}
    /\ remote[NameCC] = RunningRow(0)
    /\ cache \in [Files -> UNION {SupFiles(a) : a \in Agents}]
    /\ \A a \in Agents : cache[StatusFileName(a)] \in SupFiles(a)
    /\ cache[StatusFileName(NameCC)] = NoFile
    /\ cache[StatusFileName(NameHT)] = NoFile
    /\ proc \in [ProcessNames -> {"none", "alive"}]
    /\ IdleWorkers
    /\ IdleSupervisor

SpecWarn == InitWarn /\ [][NextSup]_vars

\* the entry is left to its agent: it says warning or error, or its name
\* is not in the mapping
LeftAlone(agent) ==
    \/ agent.status \in {"warning", "error"}
    \/ agent.agent_name \notin DOMAIN AGENT_PROCESS_NAMES

\* the step signals a process of a
SupKills(a) ==
    /\ a \in DOMAIN AGENT_PROCESS_NAMES
    /\ AGENT_PROCESS_NAMES[a] \in killed' \ killed

\* C30: in a cycle that has read the remote list, no step signals a process
\* of, or writes a record of, an agent whose entry says warning or error or
\* whose name is not in the mapping.
C30_OnlyRunningCorrected ==
    [][\A i \in DOMAIN agents :
          (/\ cycle \in {"remote", "fallback"}
           /\ sup_pc \in {"remote", "local"}
           /\ LeftAlone(agents[i]))
          => /\ ~SupWrites(agents[i].agent_name)
             /\ ~SupKills(agents[i].agent_name)]_vars

\* the same, in the cycles in which no entry has a null updated_at
C30_OnlyRunningCorrected_NoNullRow ==
    [][\A i \in DOMAIN agents :
          (/\ cycle \in {"remote", "fallback"}
           /\ sup_pc \in {"remote", "local"}
           /\ \A j \in DOMAIN agents : agents[j].updated_at # NullTS
           /\ LeftAlone(agents[i]))
          => /\ ~SupWrites(agents[i].agent_name)
             /\ ~SupKills(agents[i].agent_name)]_vars


(***************************************************************************)
(* The main of a worker wired as example_agent_with_status.py: the signal  *)
(* handlers and the exit hook are registered, mark_agent_started is        *)
(* called, the loop reports, and the process ends through except, finally, *)
(* the signal handler and the exit hook.  main[a].at is the position of    *)
(* the worker; main[a].next is where the SystemExit of the signal handler  *)
(* takes it.                                                               *)
(***************************************************************************)
MainPositions == {"start", "loop", "except", "finally", "handler", "atexit"}

\* mutant: the return after a failed mark_agent_started ends the process
\* at once
AfterStart_NoExitHook(success) == IF success THEN "loop" ELSE "exited"

\* lines 34-37: a failed mark_agent_started returns from main, ahead of the
\* try; the interpreter then runs the exit hook
AfterStart(success) == IF success THEN "loop" ELSE "atexit"

\* where an exception that leaves the position goes: the finally clause of
\* lines 80-83 from inside the try, the exit hook of line 30 otherwise
AfterExit(at) ==
    CASE at \in {"loop", "except"} -> "finally"
      [] at \in {"start", "finally"} -> "atexit"
      [] at = "atexit" -> "exited"

\* where the return of the call made at a position goes
AfterCall(a) ==
    CASE main[a].at = "start" -> AfterStart(ret[a])
      [] main[a].at = "loop" -> "loop"
      [] main[a].at = "except" -> "finally"
      [] main[a].at = "finally" -> "atexit"
      [] main[a].at = "handler" -> main[a].next
      [] main[a].at = "atexit" -> "exited"

\* the call of the reporter made at each position
MainCall(a, io) ==
    /\ WorkerAlive(a)
    /\ pc[a] = "idle"
    /\ CASE main[a].at = "start" -> MarkAgentStarted(a, io)
         [] main[a].at = "loop" ->
               /\ CounterOf(a) < MaxFails
               /\ \/ SendHeartbeat(a, IntV(100), io)
                  \/ ReportWarning(a, "warning", IntV(75), io)
                  \/ ReportError(a, "error", IntV(30), io)
                  \/ MarkAgentStarted(a, io)
         [] main[a].at = "except" -> ReportError(a, "error", IntV(30), io)
         [] main[a].at \in {"finally", "handler", "atexit"} ->
               MarkAgentStopped(a, io)
         [] OTHER -> FALSE

\* the call returned: main goes on, and after the exit hook the process ends
MainReturn(a) ==
    /\ WorkerAlive(a)
    /\ main[a].at \in MainPositions
    /\ pc[a] = "returned"
    /\ pc' = [pc EXCEPT ![a] = "idle"]
    /\ main' = [main EXCEPT ![a] = [at |-> AfterCall(a), next |-> "none"]]
    /\ proc' = IF AfterCall(a) = "exited"
               THEN [proc EXCEPT ![AGENT_PROCESS_NAMES[a]] = "none"]
               ELSE proc
    /\ UNCHANGED <<now, remote, cache, consecutive_failed_updates, creds, data,
                   attempt, ret, history, got, supVars, killing>>

\* lines 42-79: the work of the loop raises an exception
WorkRaises(a) ==
    /\ WorkerAlive(a)
    /\ main[a].at = "loop"
    /\ pc[a] = "idle"
    /\ main' = [main EXCEPT ![a] = [at |-> "except", next |-> "none"]]
    /\ UNCHANGED <<now, remote, cache, proc, workerVars, supVars, killing>>

\* the body of the try ends: a wired agent whose main returns
WorkEnds(a) ==
    /\ WorkerAlive(a)
    /\ main[a].at = "loop"
    /\ pc[a] = "idle"
    /\ main' = [main EXCEPT ![a] = [at |-> "finally", next |-> "none"]]
    /\ UNCHANGED <<now, remote, cache, proc, workerVars, supVars, killing>>

\* lines 18-22: SIGINT or SIGTERM arrives, anywhere and also inside a call
\* of the reporter, which is abandoned; a request in flight may still reach
\* the table
Signal(a, applied) ==
    /\ WorkerAlive(a)
    /\ main[a].at \in MainPositions
    /\ CounterOf(a) < MaxFails
    /\ applied => pc[a] = "patch"
    /\ main' = [main EXCEPT ![a] =
            [at |-> "handler",
             next |-> IF main[a].at = "handler" THEN main[a].next
                      ELSE AfterExit(main[a].at)]]
    /\ pc' = [pc EXCEPT ![a] = "idle"]
    /\ remote' = IF applied THEN PatchRow(remote, a, data[a]) ELSE remote
    /\ UNCHANGED <<now, cache, proc, consecutive_failed_updates, creds, data,
                   attempt, ret, history, got, supVars, killing>>

\* a kill that cannot be caught: no code of the worker runs any more
HardKill(a) ==
    /\ WorkerAlive(a)
    /\ main[a].at \in MainPositions
    /\ main' = [main EXCEPT ![a] = [at |-> "killed", next |-> "none"]]
    /\ proc' = [proc EXCEPT ![AGENT_PROCESS_NAMES[a]] = "none"]
    /\ pc' = [pc EXCEPT ![a] = "idle"]
    /\ UNCHANGED <<now, remote, cache, consecutive_failed_updates, creds, data,
                   attempt, ret, history, got, supVars, killing>>

InitMain ==
    /\ now = 0
    /\ remote \in [Agents -> {NoRow, ProvisionedRow}]
    /\ cache = [f \in Files |-> NoFile]
    /\ proc = [n \in ProcessNames |->
                  IF n = AGENT_PROCESS_NAMES[NameTS] THEN "alive" ELSE "none"]
    /\ IdleWorkers
    /\ IdleCycle
    /\ main = [a \in Agents |->
                  IF a \in Workers THEN [at |-> "start", next |-> "none"]
                  ELSE NoMain]
    /\ killing = NoKill

NextMain ==
    \/ \E a \in Workers, io \in IoOutcomes : MainCall(a, io)
    \/ \E a \in Workers, reachable \in BOOLEAN :
            WorkerAlive(a) /\ ProbeNetwork(a, reachable)
    \/ \E a \in Workers, ans \in ForceAnswers, applied \in BOOLEAN :
            WorkerAlive(a) /\ PatchAttempt(a, ans, applied)
    \/ \E a \in Workers : MainReturn(a)
    \/ \E a \in Workers : WorkRaises(a)
    \/ \E a \in Workers : WorkEnds(a)
    \/ \E a \in Workers, applied \in BOOLEAN : Signal(a, applied)
    \/ \E a \in Workers : HardKill(a)

SpecMain == InitMain /\ [][NextMain]_vars

\* C21: when the process of a wired worker has ended in any way but an
\* uncatchable kill, the last call of update_agent_status it made was
\* mark_agent_stopped: status stopped and health 0, which is also what the
\* dict it prepared last and, when the save went through, its local file say.
C21_LastWriteIsStopped ==
    \A a \in Workers :
        main[a].at = "exited" =>
            /\ call[a].status = "stopped"
            /\ call[a].health = IntV(0)
            /\ data[a].status = "stopped"
            /\ data[a].health = 0
            /\ saved[a] =>
                  /\ cache[StatusFileName(a)].status = "stopped"
                  /\ cache[StatusFileName(a)].health = 0

\* a worker ended, and its mark_agent_stopped reached the table
C21_Witness ==
    \E a \in Workers :
        /\ main[a].at = "exited"
        /\ ~WorkerAlive(a)
        /\ call[a].status = "stopped"
        /\ remote[a] # NoRow
        /\ remote[a].status = "stopped"

\* a worker ended after mark_agent_started failed
C21_Witness_FailedStart ==
    \E a \in Workers :
        /\ main[a].at = "exited"
        /\ remote[a] = NoRow
        /\ call[a].status = "stopped"

(***************************************************************************)
(* kill_process step by step.  killing.pc is the position inside the call, *)
(* killing.sent the signals the call has delivered so far, each with what  *)
(* held the pid when it was sent: the process found ("alive"), the same    *)
(* process after it exited and before its parent reaped it ("zombie"), or  *)
(* another process that was given the pid ("reused").                      *)
(***************************************************************************)
OsNames == {"posix", "nt"}

Forceful == {"SIGKILL", "taskkill /F"}

\* line 115, psutil.pid_exists: true for any entry of the process table
PidExists(held) == held # "none"

\* what a delivered SIGKILL or taskkill /F leaves of the holder of the pid
AfterForce(held) == IF held \in {"alive", "reused"} THEN "none" ELSE held

\* lines 189-192 and 269-272: a process was found and kill_process is called
KillStart(n) ==
    /\ killing.pc \in {"idle", "done"}
    /\ proc[n] = "alive"
    /\ killing' = [killing EXCEPT
            !.pc = "signal", !.pid = n, !.sent = <<>>, !.result = ""]
    /\ UNCHANGED <<now, remote, cache, proc, workerVars, supVars, main>>

\* the process table changes under the call: the process exits and is
\* reaped or not, a zombie is reaped, a free pid is given to a new process
ProcChange(n, to) ==
    /\ killing.pc # "idle"
    /\ <<proc[n], to>> \in {<<"alive", "none">>, <<"alive", "zombie">>,
                            <<"zombie", "none">>, <<"none", "reused">>}
    /\ to = "zombie" => killing.os_name = "posix"
    /\ to = "reused" => n = killing.pid
    /\ proc' = [proc EXCEPT ![n] = to]
    /\ UNCHANGED <<now, remote, cache, workerVars, supVars, auxVars>>

\* lines 108-111: taskkill /F /T on Windows, SIGTERM elsewhere; an error of
\* either is caught at line 118 and the call returns False
KillSignal(ok) ==
    /\ killing.pc = "signal"
    /\ LET held == proc[killing.pid]
           delivered == ok /\ held \in {"alive", "zombie", "reused"}
       IN  IF killing.os_name = "nt"
           THEN /\ killing' = [killing EXCEPT
                       !.pc = "done",
                       !.sent = IF delivered
                                THEN Append(@, [sig |-> "taskkill /F",
                                                held |-> held])
                                ELSE @,
                       !.result = IF delivered THEN "True" ELSE "False"]
                /\ proc' = IF delivered
                           THEN [proc EXCEPT ![killing.pid] = AfterForce(held)]
                           ELSE proc
           ELSE /\ killing' = [killing EXCEPT
                       !.pc = IF delivered THEN "wait" ELSE "done",
                       !.sent = IF delivered
                                THEN Append(@, [sig |-> "SIGTERM",
                                                held |-> held])
                                ELSE @,
                       !.result = IF delivered THEN "" ELSE "False"]
                /\ UNCHANGED proc
    /\ UNCHANGED <<now, remote, cache, workerVars, supVars, main>>

\* line 113: time.sleep(1) ends
KillWait ==
    /\ killing.pc = "wait"
    /\ killing' = [killing EXCEPT !.pc = "check"]
    /\ UNCHANGED <<now, remote, cache, proc, workerVars, supVars, main>>

\* lines 115-117: SIGKILL if the pid exists, and True is returned
KillCheck ==
    /\ killing.pc = "check"
    /\ LET held == proc[killing.pid]
       IN  IF PidExists(held)
           THEN /\ killing' = [killing EXCEPT
                       !.pc = "done",
                       !.sent = Append(@, [sig |-> "SIGKILL", held |-> held]),
                       !.result = "True"]
                /\ proc' = [proc EXCEPT ![killing.pid] = AfterForce(held)]
           ELSE /\ killing' = [killing EXCEPT !.pc = "done", !.result = "True"]
                /\ UNCHANGED proc
    /\ UNCHANGED <<now, remote, cache, workerVars, supVars, main>>

InitKill ==
    /\ now = 0
    /\ remote = [a \in Agents |-> NoRow]
    /\ cache = [f \in Files |-> NoFile]
    /\ proc \in [ProcessNames -> {"alive", "none"}]
    /\ IdleWorkers
    /\ IdleCycle
    /\ main = [a \in Agents |-> NoMain]
    /\ \E os \in OsNames : killing = [NoKill EXCEPT !.os_name = os]

NextKill ==
    \/ \E n \in ProcessNames : KillStart(n)
    \/ \E n \in ProcessNames, to \in {"none", "zombie", "reused"} :
            ProcChange(n, to)
    \/ \E ok \in BOOLEAN : KillSignal(ok)
    \/ KillWait
    \/ KillCheck

SpecKill == InitKill /\ [][NextKill]_vars

\* C24: every forceful kill that kill_process delivers comes after a
\* graceful signal of the same call, and goes to the process that was found,
\* never to a pid whose process exited during the wait.
C24_GracefulBeforeForceful ==
    \A i \in 1..Len(killing.sent) :
        killing.sent[i].sig \in Forceful =>
            /\ \E j \in 1..(i - 1) : killing.sent[j].sig = "SIGTERM"
            /\ killing.sent[i].held = "alive"

\* on a Unix-like system, the SIGKILL comes after the SIGTERM and the wait,
\* and only when the pid exists at the check of line 115
C24_GracefulBeforeForceful_PosixPidExists ==
    \A i \in 1..Len(killing.sent) :
        killing.sent[i].sig \in Forceful =>
            IF killing.os_name = "nt"
            THEN killing.sent[i].sig = "taskkill /F" /\ i = 1
            ELSE /\ killing.sent[i].sig = "SIGKILL"
                 /\ i = 2
                 /\ killing.sent[1].sig = "SIGTERM"
                 /\ killing.sent[i].held # "none"

\* a SIGKILL went to the process found, after the SIGTERM and the wait
C24_Escalated ==
    /\ killing.pc = "done"
    /\ Len(killing.sent) = 2
    /\ killing.sent[2] = [sig |-> "SIGKILL", held |-> "alive"]
    /\ proc[killing.pid] = "none"
=============================================================================
